---- MODULE Spec2Model ----
(***************************************************************************)
(* Buffer pool manager (buffer_pool_manager.cpp) and CLOCK replacer        *)
(* (clock_replacer.cpp) of bustub, as a single-threaded state machine.     *)
(*                                                                         *)
(* The pool state is threaded through the operators below as a record S    *)
(* with one field per member of BufferPoolManager / ClockReplacer / the    *)
(* disk; every operator is the translation of the method of the same name. *)
(* One action per public method applies the operator to the current state. *)
(***************************************************************************)
EXTENDS Integers, Sequences, FiniteSets, TLC

\* ---------------------------------------------------------------- bounds
PoolSize == 2        \* pool_size_ given to the constructor
MaxPages == 3        \* AllocatePage is called at most MaxPages times
MaxPin   == 1        \* FetchPage of a resident page is called while pin_count_ < MaxPin
MaxData  == 1        \* page contents are abstracted to one value 0..MaxData
NumPages == 3        \* num_pages given to the constructor of a ClockReplacer used on its own
NumThreads   == 2    \* threads calling the pool concurrently
OpsPerThread == 2    \* pool calls each of them makes
MaxGuards    == 2    \* page guard objects constructed
leaf_max_size     == 3   \* leaf_max_size given to the constructor of the BPlusTree
internal_max_size == 3   \* internal_max_size given to the constructor of the BPlusTree
MaxKey       == 5    \* keys inserted and removed are 1 .. MaxKey
MaxVal       == 1    \* values inserted are 1 .. MaxVal
MaxTreePages == 8    \* the tree allocates at most MaxTreePages pages
MaxTreeOps   == 7    \* Insert and Remove are called at most MaxTreeOps times in all
MaxSeqKey    == 8    \* the keys 1 .. MaxSeqKey are inserted in ascending order
MaxSeqRemoves == 3   \* Remove calls between and after the inserts in ascending order
MaxCrabKey   == 2    \* keys used by the threads calling the tree are 1 .. MaxCrabKey

INVALID_PAGE_ID == 0 - 1

Frames   == 0 .. (PoolSize - 1)
Slots    == 0 .. (NumPages - 1)
Threads  == 1 .. NumThreads
GuardIds == 1 .. MaxGuards
PageIds  == 0 .. (MaxPages - 1)
DataVals == 0 .. MaxData
Keys     == 1 .. MaxKey
Vals     == 1 .. MaxVal
SeqKeys  == 1 .. MaxSeqKey
CrabKeys == 1 .. MaxCrabKey
NoFrame  == 0 - 1    \* nullptr result of NewPage / FetchPage
NoData   == 0 - 1    \* "no flush recorded" in the flushed history

\* A tree page is a record: the shared header (page_type, size, max_size, page_id,
\* parent_page_id), next_page_id (leaf) and array_, whose slots at index >= size keep
\* whatever was last stored in them.  A new page is zeroed memory.
MaxSlot == (IF leaf_max_size > internal_max_size THEN leaf_max_size ELSE internal_max_size) + 1

ArrayIdx == 0 .. MaxSlot

ZeroItem == [first |-> 0, second |-> 0]

ZeroPage ==
  [page_type |-> "INVALID_INDEX_PAGE", size |-> 0, max_size |-> 0, page_id |-> 0,
   parent_page_id |-> 0, next_page_id |-> 0, array |-> [i \in ArrayIdx |-> ZeroItem]]

header_page_id == 0

\* The type a page has for the tree when its first word holds n.
AsPageType(n) ==
  IF n = 0 THEN "INVALID_INDEX_PAGE" ELSE IF n = 1 THEN "LEAF_PAGE"
  ELSE IF n = 2 THEN "INTERNAL_PAGE" ELSE "OTHER"

\* A guard object that has not been constructed.
NoGuard ==
  [state |-> "unused", kind |-> "none", bpm |-> FALSE, page |-> NoFrame, is_dirty |-> FALSE,
   tok |-> 0, moved |-> FALSE, own |-> FALSE]

VARIABLES
  pages,         \* pages_[f] : page_id_, pin_count_, is_dirty_, data_
  page_table,    \* page_table_ : page id -> frame id (partial)
  free_list,     \* free_list_
  ref_flag,      \* ClockReplacer::ref_flag_
  pointer,       \* ClockReplacer::pointer_
  next_page_id,  \* next_page_id_
  disk,          \* contents of the page file, by page id
  invalid_io,    \* the last call passed INVALID_PAGE_ID to the disk manager
  dirtied,       \* history: resident pages with an UnpinPage(p, true) that returned true
                 \*          since p was last loaded or flushed
  flushed,       \* history: data written by the last FlushPage(p) while p is unmodified since
  rep,           \* a ClockReplacer used on its own: ref_flag_, pointer_, num_pages_
  clk,           \* the CLOCK policy of the design run on the same replacer calls: cand, bit, ptr
  rep_last,      \* the last call made on the replacer alone: op, got (the code), want (the policy)
  unpinned,      \* history: frames whose most recent replacer event was Unpin
  th,            \* per thread: position in the pool method it runs, its locals, the pins it holds
  guards,        \* page guard objects: kind, bpm_, page_, is_dirty_; history: tok (the guard whose
                 \*   constructor took the pin held), moved (moved from), own (constructed with a pin)
  latch,         \* per frame: the holders of Page::rwlatch_ (readers, writer)
  unpins,        \* history: UnpinPage calls made for the pin a guard was constructed with
  bad_unlatch,   \* history: a latch was released in a mode in which it was not held
  guard_last,    \* the last FetchPageBasic/Read/Write or NewPageGuarded call: by, avail, page
  tree,          \* the B+tree: root_page_id (header page), pages (tree pages by page id),
                 \*   next_page_id (next page id to hand out), deleted_page_set (of the transaction);
                 \*   history: deleted (pages passed to DeletePage), calls (during the last operation)
  ref_map,       \* history: the map the Insert / Remove calls made so far describe (0: absent)
  tree_last,     \* the last call made on the tree: op, key, ret, value; n: the number of
                 \*   Insert and Remove calls made so far
  crab           \* threads calling the tree: th (per thread: position, operation, key, locals;
                 \*   history: the latches and pins it took and gave back), latch (per page:
                 \*   Page::rwlatch_), pin (per page: pin_count_), root_latch (holder of
                 \*   root_latch_, 0: none), bad (a latch was released in a mode in which it was
                 \*   not held); history: inserted (keys of the Insert calls that returned true)

poolvars == <<pages, page_table, free_list, ref_flag, pointer, next_page_id, disk, invalid_io, dirtied, flushed>>

replvars == <<rep, clk, rep_last, unpinned>>

concvars == <<th>>

guardvars == <<guards, latch, unpins, bad_unlatch, guard_last>>

treevars == <<tree, ref_map, tree_last, crab>>

vars == <<poolvars, replvars, concvars, guardvars, treevars>>

\* What a buffer pool call leaves alone.
NonPool == <<replvars, concvars, guardvars, treevars>>

\* The pool as one record; io collects the disk manager calls of the operation applied to it.
St ==
  [pages |-> pages, page_table |-> page_table, free_list |-> free_list,
   ref_flag |-> ref_flag, pointer |-> pointer, num_pages |-> PoolSize,
   next_page_id |-> next_page_id, disk |-> disk, io |-> <<>>]

\* ------------------------------------------------------------ disk manager
WritePage(S, page_id, data) ==
  [S EXCEPT !.io = Append(@, [op |-> "W", id |-> page_id]),
            !.disk = IF page_id \in DOMAIN S.disk THEN [@ EXCEPT ![page_id] = data] ELSE @]

ReadPage(S, page_id, frame_id) ==
  [S EXCEPT !.io = Append(@, [op |-> "R", id |-> page_id]),
            !.pages[frame_id].data = IF page_id \in DOMAIN S.disk THEN S.disk[page_id] ELSE @]

\* ---------------------------------------------------------- ClockReplacer
NextSlot(S, slot) == (slot + 1) % S.num_pages

RECURSIVE VictimScan(_, _, _)
VictimScan(S, current, i) ==
  IF i = S.num_pages THEN NoFrame
  ELSE IF ~S.ref_flag[current] THEN VictimScan(S, NextSlot(S, current), i + 1)
  ELSE current

\* Victim that leaves the reference bit of the frame it returns set.
VictimKeepFlag(S) ==
  LET current == VictimScan(S, S.pointer, 0) IN
  IF current = NoFrame
    THEN [found |-> FALSE, frame_id |-> NoFrame, st |-> S]
    ELSE [found |-> TRUE, frame_id |-> current,
          st |-> [S EXCEPT !.pointer = NextSlot(S, current)]]

Victim(S) ==
  LET current == VictimScan(S, S.pointer, 0) IN
  IF current = NoFrame
    THEN [found |-> FALSE, frame_id |-> NoFrame, st |-> S]
    ELSE [found |-> TRUE, frame_id |-> current,
          st |-> [S EXCEPT !.ref_flag[current] = FALSE, !.pointer = NextSlot(S, current)]]

Pin(S, frame_id) ==
  [S EXCEPT !.pointer = NextSlot(S, frame_id), !.ref_flag[frame_id] = FALSE]

\* Unpin that leaves the reference bit as it is.
UnpinNoSet(S, frame_id) == S

Unpin(S, frame_id) ==
  [S EXCEPT !.ref_flag[frame_id] = TRUE]

Size(S) == Cardinality({i \in 0 .. (S.num_pages - 1) : S.ref_flag[i]})

\* ------------------------------------------------------ BufferPoolManager
\* erase that removes nothing.
EraseNothing(pt, k) == pt

Erase(pt, k) == [x \in (DOMAIN pt) \ {k} |-> pt[x]]

\* std::unordered_map::emplace: no effect when the key is present
Emplace(pt, k, v) ==
  IF k \in DOMAIN pt THEN pt
  ELSE [x \in (DOMAIN pt) \cup {k} |-> IF x = k THEN v ELSE pt[x]]

\* UpdatePage that never writes the old page back.
UpdatePageNoWrite(S, frame_id, new_page_id, new_frame_id) ==
  LET page == S.pages[frame_id]
      S1 == [S EXCEPT !.pages[frame_id].is_dirty = FALSE]
      pt1 == Erase(S1.page_table, page.page_id)
      pt2 == IF new_page_id # INVALID_PAGE_ID THEN Emplace(pt1, new_page_id, new_frame_id) ELSE pt1
  IN [S1 EXCEPT !.page_table = pt2,
                !.pages[frame_id].data = 0,
                !.pages[frame_id].page_id = new_page_id]

\* UpdatePage that writes the old page back whether or not it is dirty.
UpdatePageAlwaysWrite(S, frame_id, new_page_id, new_frame_id) ==
  LET page == S.pages[frame_id]
      S1 == [WritePage(S, page.page_id, page.data) EXCEPT !.pages[frame_id].is_dirty = FALSE]
      pt1 == Erase(S1.page_table, page.page_id)
      pt2 == IF new_page_id # INVALID_PAGE_ID THEN Emplace(pt1, new_page_id, new_frame_id) ELSE pt1
  IN [S1 EXCEPT !.page_table = pt2,
                !.pages[frame_id].data = 0,
                !.pages[frame_id].page_id = new_page_id]

UpdatePage(S, frame_id, new_page_id, new_frame_id) ==
  LET page == S.pages[frame_id]
      S1 == IF page.is_dirty
              THEN [WritePage(S, page.page_id, page.data) EXCEPT !.pages[frame_id].is_dirty = FALSE]
              ELSE S
      pt1 == Erase(S1.page_table, page.page_id)
      pt2 == IF new_page_id # INVALID_PAGE_ID THEN Emplace(pt1, new_page_id, new_frame_id) ELSE pt1
  IN [S1 EXCEPT !.page_table = pt2,
                !.pages[frame_id].data = 0,
                !.pages[frame_id].page_id = new_page_id]

\* FindVictimPage that asks the replacer before the free list.
FindVictimPageReplacerFirst(S) ==
  LET v == Victim(S) IN
  IF v.found
    THEN [found |-> TRUE, frame_id |-> v.frame_id, src |-> "replacer", st |-> v.st]
    ELSE IF S.free_list # <<>>
      THEN [found |-> TRUE, frame_id |-> Head(S.free_list), src |-> "free",
            st |-> [S EXCEPT !.free_list = Tail(@)]]
      ELSE [found |-> FALSE, frame_id |-> NoFrame, src |-> "none", st |-> S]

FindVictimPage(S) ==
  IF S.free_list # <<>>
    THEN [found |-> TRUE, frame_id |-> Head(S.free_list), src |-> "free",
          st |-> [S EXCEPT !.free_list = Tail(@)]]
    ELSE LET v == Victim(S) IN
         [found |-> v.found, frame_id |-> v.frame_id,
          src |-> IF v.found THEN "replacer" ELSE "none", st |-> v.st]

AllocatePage(S) == [page_id |-> S.next_page_id, st |-> [S EXCEPT !.next_page_id = @ + 1]]

NewPage(S) ==
  LET v == FindVictimPage(S) IN
  IF ~v.found
    THEN [frame_id |-> NoFrame, page_id |-> INVALID_PAGE_ID, src |-> "none", st |-> S]
    ELSE LET a  == AllocatePage(v.st)
             S1 == UpdatePage(a.st, v.frame_id, a.page_id, v.frame_id)
             S2 == Pin(S1, v.frame_id)
         IN [frame_id |-> v.frame_id, page_id |-> a.page_id, src |-> v.src,
             st |-> [S2 EXCEPT !.pages[v.frame_id].pin_count = 1]]

FetchPage(S, page_id) ==
  IF page_id \in DOMAIN S.page_table
    THEN LET frame_id == S.page_table[page_id]
             S1 == Pin(S, frame_id)
         IN [frame_id |-> frame_id, src |-> "hit",
             st |-> [S1 EXCEPT !.pages[frame_id].pin_count = @ + 1]]
    ELSE LET v == FindVictimPage(S) IN
         IF ~v.found
           THEN [frame_id |-> NoFrame, src |-> "none", st |-> S]
           ELSE LET S1 == UpdatePage(v.st, v.frame_id, page_id, v.frame_id)
                    S2 == ReadPage(S1, page_id, v.frame_id)
                    S3 == Pin(S2, v.frame_id)
                IN [frame_id |-> v.frame_id, src |-> v.src,
                    st |-> [S3 EXCEPT !.pages[v.frame_id].pin_count = @ + 1]]

\* UnpinPage without the pin_count_ == 0 check.
UnpinPageNoZeroCheck(S, page_id, is_dirty) ==
  IF page_id \notin DOMAIN S.page_table
    THEN [ret |-> FALSE, st |-> S]
    ELSE LET frame_id == S.page_table[page_id]
             S1 == [S EXCEPT !.pages[frame_id].pin_count = @ - 1]
             S2 == IF S1.pages[frame_id].pin_count = 0 THEN Unpin(S1, frame_id) ELSE S1
             S3 == IF is_dirty THEN [S2 EXCEPT !.pages[frame_id].is_dirty = TRUE] ELSE S2
         IN [ret |-> TRUE, st |-> S3]

UnpinPage(S, page_id, is_dirty) ==
  IF page_id \notin DOMAIN S.page_table
    THEN [ret |-> FALSE, st |-> S]
    ELSE LET frame_id == S.page_table[page_id] IN
         IF S.pages[frame_id].pin_count = 0
           THEN [ret |-> FALSE, st |-> S]
           ELSE LET S1 == [S EXCEPT !.pages[frame_id].pin_count = @ - 1]
                    S2 == IF S1.pages[frame_id].pin_count = 0 THEN Unpin(S1, frame_id) ELSE S1
                    S3 == IF is_dirty THEN [S2 EXCEPT !.pages[frame_id].is_dirty = TRUE] ELSE S2
                IN [ret |-> TRUE, st |-> S3]

\* FlushPage that clears the dirty flag without writing the page.
FlushPageNoWrite(S, page_id) ==
  IF page_id = INVALID_PAGE_ID \/ page_id \notin DOMAIN S.page_table
    THEN [ret |-> FALSE, st |-> S]
    ELSE [ret |-> TRUE, st |-> [S EXCEPT !.pages[S.page_table[page_id]].is_dirty = FALSE]]

FlushPage(S, page_id) ==
  IF page_id = INVALID_PAGE_ID
    THEN [ret |-> FALSE, st |-> S]
    ELSE IF page_id \notin DOMAIN S.page_table
      THEN [ret |-> FALSE, st |-> S]
      ELSE LET frame_id == S.page_table[page_id]
               page == S.pages[frame_id]
               S1 == WritePage(S, page.page_id, page.data)
           IN [ret |-> TRUE, st |-> [S1 EXCEPT !.pages[frame_id].is_dirty = FALSE]]

RECURSIVE FlushAllFrom(_, _)
FlushAllFrom(S, i) ==
  IF i = PoolSize THEN S
  ELSE LET page == S.pages[i] IN
       IF page.page_id # INVALID_PAGE_ID
         THEN FlushAllFrom([WritePage(S, page.page_id, page.data) EXCEPT !.pages[i].is_dirty = FALSE], i + 1)
         ELSE FlushAllFrom(S, i + 1)

FlushAllPages(S) == FlushAllFrom(S, 0)

\* DeletePage without the pin_count_ > 0 check.
DeletePageNoPinCheck(S, page_id) ==
  IF page_id \notin DOMAIN S.page_table
    THEN [ret |-> TRUE, st |-> S]
    ELSE LET frame_id == S.page_table[page_id]
             S1 == UpdatePage(S, frame_id, INVALID_PAGE_ID, frame_id)
         IN [ret |-> TRUE, st |-> [S1 EXCEPT !.free_list = Append(@, frame_id)]]

\* DeletePage that does not return the frame to the free list.
DeletePageNoFree(S, page_id) ==
  IF page_id \notin DOMAIN S.page_table
    THEN [ret |-> TRUE, st |-> S]
    ELSE LET frame_id == S.page_table[page_id] IN
         IF S.pages[frame_id].pin_count > 0
           THEN [ret |-> FALSE, st |-> S]
           ELSE [ret |-> TRUE, st |-> UpdatePage(S, frame_id, INVALID_PAGE_ID, frame_id)]

DeletePage(S, page_id) ==
  IF page_id \notin DOMAIN S.page_table
    THEN [ret |-> TRUE, st |-> S]
    ELSE LET frame_id == S.page_table[page_id] IN
         IF S.pages[frame_id].pin_count > 0
           THEN [ret |-> FALSE, st |-> S]
           ELSE LET S1 == UpdatePage(S, frame_id, INVALID_PAGE_ID, frame_id)
                IN [ret |-> TRUE, st |-> [S1 EXCEPT !.free_list = Append(@, frame_id)]]

\* ------------------------------------------------------------- the machine
PoolBecomes(S) ==
  /\ pages' = S.pages
  /\ page_table' = S.page_table
  /\ free_list' = S.free_list
  /\ ref_flag' = S.ref_flag
  /\ pointer' = S.pointer
  /\ next_page_id' = S.next_page_id
  /\ disk' = S.disk
  /\ invalid_io' = \E i \in 1 .. Len(S.io) : S.io[i].id = INVALID_PAGE_ID

Install(S) == PoolBecomes(S) /\ UNCHANGED NonPool

\* Page ids a caller passes: INVALID_PAGE_ID, or an id AllocatePage has handed out.
Args == {INVALID_PAGE_ID} \cup (0 .. (next_page_id - 1))

\* Page ids passed to UnpinPage and DeletePage, which only look the id up in page_table_:
\* a mapped id, or INVALID_PAGE_ID for the ids that have no entry.
Lookups == {INVALID_PAGE_ID} \cup DOMAIN page_table

\* ---- threads calling the tree
\* The pages a thread of the tree can latch or pin; FetchPage(INVALID_PAGE_ID) gives a page too.
CrabPages == INVALID_PAGE_ID .. (header_page_id + MaxTreePages)

\* A thread between two calls, with left calls to make.
CrabIdle(left) ==
  [pc |-> "idle", op |-> "none", key |-> 0, new_page_id |-> INVALID_PAGE_ID, left |-> left,
   rheld |-> {}, wheld |-> {}, took |-> [p \in CrabPages |-> 0], gave |-> [p \in CrabPages |-> 0]]

\* After BPlusTree(): the guard on the header page has been dropped, as a WritePageGuard is:
\* RUnlatch() on a latch held for writing.
CrabInit ==
  [th |-> [t \in Threads |-> CrabIdle(OpsPerThread)],
   latch |-> [p \in CrabPages |-> [readers |-> 0, writer |-> FALSE]],
   pin |-> [p \in CrabPages |-> 0],
   root_latch |-> 0, bad |-> TRUE, inserted |-> {}]

Init ==
  /\ pages = [f \in Frames |-> [page_id |-> INVALID_PAGE_ID, pin_count |-> 0, is_dirty |-> FALSE, data |-> 0]]
  /\ page_table = [x \in {} |-> 0]
  /\ free_list = [i \in 1 .. PoolSize |-> i - 1]
  /\ ref_flag = [f \in Frames |-> FALSE]
  /\ pointer = 0
  /\ next_page_id = 0
  /\ disk = [p \in PageIds |-> 0]
  /\ invalid_io = FALSE
  /\ dirtied = {}
  /\ flushed = [p \in PageIds |-> NoData]
  /\ rep = [ref_flag |-> [i \in Slots |-> FALSE], pointer |-> 0, num_pages |-> NumPages]
  /\ clk = [cand |-> {}, bit |-> [i \in Slots |-> FALSE], ptr |-> 0, num_pages |-> NumPages]
  /\ rep_last = [op |-> "none", got |-> NoFrame, want |-> NoFrame]
  /\ unpinned = {}
  /\ guards = [g \in GuardIds |-> NoGuard]
  /\ latch = [f \in Frames |-> [readers |-> 0, writer |-> FALSE]]
  /\ unpins = [g \in GuardIds |-> 0]
  /\ bad_unlatch = FALSE
  /\ guard_last = [by |-> "none", avail |-> FALSE, page |-> NoFrame]
  /\ th = [t \in Threads |-> [pc |-> "idle", op |-> "none", page_id |-> INVALID_PAGE_ID, frame_id |-> NoFrame,
                             val |-> 0, is_dirty |-> FALSE, left |-> OpsPerThread, pins |-> {}]]
  /\ tree = [root_page_id |-> INVALID_PAGE_ID,
             pages |-> [p \in {header_page_id} |->
                          [ZeroPage EXCEPT !.page_type = AsPageType(INVALID_PAGE_ID)]],
             next_page_id |-> header_page_id + 1,
             deleted_page_set |-> {}, deleted |-> {}, calls |-> {}, out_of_array |-> FALSE]
  /\ ref_map = [k \in Keys \cup SeqKeys |-> 0]
  /\ tree_last = [op |-> "none", key |-> 0, ret |-> FALSE, value |-> 0, n |-> 0, seq |-> 0]
  /\ crab = CrabInit

\* The page a frame held before NewPage / FetchPage loaded another one into it.
Replaced(r) == IF r.src \in {"free", "replacer"} THEN {pages[r.frame_id].page_id} ELSE {}

NewPageCall ==
  /\ next_page_id < MaxPages
  /\ LET r == NewPage(St) IN
     /\ Install(r.st)
     /\ dirtied' = (dirtied \ Replaced(r)) \ {r.page_id}
  /\ flushed' = flushed

FetchPageCall ==
  \E page_id \in Args :
    /\ page_id \in DOMAIN page_table => pages[page_table[page_id]].pin_count < MaxPin
    /\ LET r == FetchPage(St, page_id) IN
       /\ Install(r.st)
       /\ dirtied' = IF r.src \in {"free", "replacer"} THEN (dirtied \ Replaced(r)) \ {page_id} ELSE dirtied
    /\ flushed' = flushed

UnpinPageCall ==
  \E page_id \in Lookups, is_dirty \in BOOLEAN :
    LET r == UnpinPage(St, page_id, is_dirty) IN
    /\ Install(r.st)
    /\ dirtied' = IF r.ret /\ is_dirty THEN dirtied \cup {page_id} ELSE dirtied
    /\ flushed' = flushed

FlushPageCall ==
  \E page_id \in Args :
    LET r == FlushPage(St, page_id) IN
    /\ Install(r.st)
    /\ dirtied' = IF r.ret THEN dirtied \ {page_id} ELSE dirtied
    /\ flushed' = IF r.ret THEN [flushed EXCEPT ![page_id] = pages[page_table[page_id]].data] ELSE flushed

FlushAllPagesCall ==
  /\ Install(FlushAllPages(St))
  /\ dirtied' = dirtied \ {pages[f].page_id : f \in Frames}
  /\ flushed' = flushed

DeletePageCall ==
  \E page_id \in Lookups :
    LET r == DeletePage(St, page_id) IN
    /\ Install(r.st)
    /\ dirtied' = IF r.ret THEN dirtied \ {page_id} ELSE dirtied
    /\ flushed' = flushed

\* The holder of a pin on page_id stores data through Page::GetData().
WriteData ==
  \E page_id \in DOMAIN page_table, d \in DataVals :
    LET frame_id == page_table[page_id] IN
    /\ pages[frame_id].pin_count > 0
    /\ pages[frame_id].data # d
    /\ pages' = [pages EXCEPT ![frame_id].data = d]
    /\ flushed' = [flushed EXCEPT ![page_id] = NoData]
    /\ invalid_io' = FALSE
    /\ UNCHANGED <<page_table, free_list, ref_flag, pointer, next_page_id, disk, dirtied>>
    /\ UNCHANGED NonPool

Next ==
  \/ NewPageCall
  \/ FetchPageCall
  \/ UnpinPageCall
  \/ FlushPageCall
  \/ FlushAllPagesCall
  \/ DeletePageCall

Spec == Init /\ [][Next]_vars

NextData == Next \/ WriteData

SpecData == Init /\ [][NextData]_vars

\* ------------------------------------------------- the replacer on its own
\* The CLOCK / second-chance policy of the design, run next to ClockReplacer on
\* the same calls. C is [cand, bit, ptr, num_pages]: the candidate slots, their
\* reference bits and the hand.
ClockUnpin(C, frame_id) == [C EXCEPT !.cand = @ \cup {frame_id}, !.bit[frame_id] = TRUE]

ClockPin(C, frame_id) == [C EXCEPT !.cand = @ \ {frame_id}, !.bit[frame_id] = FALSE]

RECURSIVE ClockScan(_, _, _)
ClockScan(C, slot, i) ==
  IF i = 2 * C.num_pages THEN [found |-> FALSE, frame_id |-> NoFrame, clk |-> C]
  ELSE IF slot \in C.cand /\ C.bit[slot]
    THEN ClockScan([C EXCEPT !.bit[slot] = FALSE], NextSlot(C, slot), i + 1)
  ELSE IF slot \in C.cand
    THEN [found |-> TRUE, frame_id |-> slot,
          clk |-> [C EXCEPT !.cand = @ \ {slot}, !.ptr = NextSlot(C, slot)]]
  ELSE ClockScan(C, NextSlot(C, slot), i + 1)

ClockVictim(C) ==
  IF C.cand = {} THEN [found |-> FALSE, frame_id |-> NoFrame, clk |-> C]
  ELSE ClockScan(C, C.ptr, 0)

PinCall ==
  \E frame_id \in Slots :
    /\ rep' = Pin(rep, frame_id)
    /\ clk' = ClockPin(clk, frame_id)
    /\ rep_last' = [op |-> "Pin", got |-> NoFrame, want |-> NoFrame]
    /\ unpinned' = unpinned \ {frame_id}
    /\ UNCHANGED <<poolvars, concvars, guardvars, treevars>>

UnpinCall ==
  \E frame_id \in Slots :
    /\ rep' = Unpin(rep, frame_id)
    /\ clk' = ClockUnpin(clk, frame_id)
    /\ rep_last' = [op |-> "Unpin", got |-> NoFrame, want |-> NoFrame]
    /\ unpinned' = unpinned \cup {frame_id}
    /\ UNCHANGED <<poolvars, concvars, guardvars, treevars>>

VictimCall ==
  LET v == Victim(rep)
      c == ClockVictim(clk)
  IN /\ rep' = v.st
     /\ clk' = c.clk
     /\ rep_last' = [op |-> "Victim", got |-> v.frame_id, want |-> c.frame_id]
     /\ unpinned' = unpinned \ {v.frame_id}
     /\ UNCHANGED <<poolvars, concvars, guardvars, treevars>>

NextReplacer ==
  \/ PinCall
  \/ UnpinCall
  \/ VictimCall

SpecReplacer == Init /\ [][NextReplacer]_vars

\* ------------------------------------------- the pool called by several threads
\* BufferPoolManager takes no latch in any method, so the calls of two threads
\* interleave between their statements. Each action below is one statement
\* (or one read or write of pin_count_) of the method the thread is in; the
\* replacer's methods hold its latch_ and are single steps.
Goto(t, pc) == th' = [th EXCEPT ![t].pc = pc]

Return(t, pins) ==
  th' = [th EXCEPT ![t] = [pc |-> "idle", op |-> "none", page_id |-> INVALID_PAGE_ID,
                           frame_id |-> NoFrame, val |-> 0, is_dirty |-> FALSE,
                           left |-> @.left, pins |-> pins]]

PoolSame == PoolBecomes(St)

ConcKeep == UNCHANGED <<dirtied, flushed, replvars, guardvars, treevars>>

Begin(t, op, page_id, is_dirty, pc) ==
  /\ th[t].pc = "idle"
  /\ th[t].left > 0
  /\ th' = [th EXCEPT ![t].pc = pc, ![t].op = op, ![t].page_id = page_id,
                      ![t].is_dirty = is_dirty, ![t].left = @ - 1]
  /\ PoolSame
  /\ ConcKeep

\* Threads that are in NewPage and have not yet called AllocatePage.
Allocating == {u \in Threads : th[u].op = "NewPage" /\ th[u].pc \in {"find", "pop", "alloc"}}

CallNewPage(t) ==
  /\ next_page_id + Cardinality(Allocating) < MaxPages
  /\ Begin(t, "NewPage", INVALID_PAGE_ID, FALSE, "find")

\* Page ids a NewPage call has returned to its caller.
Known == (0 .. (next_page_id - 1)) \ {th[u].page_id : u \in {v \in Threads : th[v].op = "NewPage"}}

CallFetchPage(t) ==
  \E page_id \in Known \ th[t].pins :
    Begin(t, "FetchPage", page_id, FALSE, "lookup")

CallUnpinPage(t) ==
  \E page_id \in th[t].pins, is_dirty \in BOOLEAN :
    Begin(t, "UnpinPage", page_id, is_dirty, "u_lookup")

CallDeletePage(t) ==
  \E page_id \in Known :
    Begin(t, "DeletePage", page_id, FALSE, "d_lookup")

\* FetchPage: page_table_.find
FetchLookup(t) ==
  /\ th[t].pc = "lookup"
  /\ IF th[t].page_id \in DOMAIN page_table
       THEN th' = [th EXCEPT ![t].pc = "hit_pin", ![t].frame_id = page_table[th[t].page_id]]
       ELSE Goto(t, "find")
  /\ PoolSame
  /\ ConcKeep

\* FetchPage, page found: replacer_->Pin
HitPin(t) ==
  /\ th[t].pc = "hit_pin"
  /\ PoolBecomes(Pin(St, th[t].frame_id))
  /\ Goto(t, "inc_read")
  /\ ConcKeep

\* page->pin_count_++ : the read
IncRead(t) ==
  /\ th[t].pc = "inc_read"
  /\ th' = [th EXCEPT ![t].pc = "inc_write", ![t].val = pages[th[t].frame_id].pin_count]
  /\ PoolSame
  /\ ConcKeep

\* page->pin_count_++ : the write; FetchPage returns the page
IncWrite(t) ==
  /\ th[t].pc = "inc_write"
  /\ PoolBecomes([St EXCEPT !.pages[th[t].frame_id].pin_count = th[t].val + 1])
  /\ Return(t, th[t].pins \cup {th[t].page_id})
  /\ ConcKeep

\* FindVictimPage: free_list_.empty() and front(), or replacer_->Victim
FindVictim(t) ==
  /\ th[t].pc = "find"
  /\ IF free_list # <<>>
       THEN /\ th' = [th EXCEPT ![t].pc = "pop", ![t].frame_id = Head(free_list)]
            /\ PoolSame
       ELSE LET v == Victim(St) IN
            /\ PoolBecomes(v.st)
            /\ IF v.found
                 THEN th' = [th EXCEPT ![t].pc = IF th[t].op = "NewPage" THEN "alloc" ELSE "update",
                                       ![t].frame_id = v.frame_id]
                 ELSE Return(t, th[t].pins)
  /\ ConcKeep

\* FindVictimPage: free_list_.pop_front() (of whatever is at the front by now)
PopFront(t) ==
  /\ th[t].pc = "pop"
  /\ PoolBecomes([St EXCEPT !.free_list = IF @ = <<>> THEN <<>> ELSE Tail(@)])
  /\ Goto(t, IF th[t].op = "NewPage" THEN "alloc" ELSE "update")
  /\ ConcKeep

\* NewPage: *page_id = AllocatePage()
Alloc(t) ==
  /\ th[t].pc = "alloc"
  /\ LET a == AllocatePage(St) IN
     /\ PoolBecomes(a.st)
     /\ th' = [th EXCEPT ![t].pc = "update", ![t].page_id = a.page_id]
  /\ ConcKeep

\* NewPage / FetchPage: UpdatePage (and ReadPage in FetchPage)
Update(t) ==
  /\ th[t].pc = "update"
  /\ LET f  == th[t].frame_id
         S1 == UpdatePage(St, f, th[t].page_id, f)
     IN PoolBecomes(IF th[t].op = "FetchPage" THEN ReadPage(S1, th[t].page_id, f) ELSE S1)
  /\ Goto(t, "pin")
  /\ ConcKeep

\* NewPage: replacer_->Pin, pin_count_ = 1, return; FetchPage: replacer_->Pin
PinFrame(t) ==
  /\ th[t].pc = "pin"
  /\ LET S1 == Pin(St, th[t].frame_id) IN
     IF th[t].op = "NewPage"
       THEN /\ PoolBecomes([S1 EXCEPT !.pages[th[t].frame_id].pin_count = 1])
            /\ Return(t, th[t].pins \cup {th[t].page_id})
       ELSE /\ PoolBecomes(S1)
            /\ Goto(t, "inc_read")
  /\ ConcKeep

\* UnpinPage: page_table_.find and the pin_count_ == 0 check
UnpinLookup(t) ==
  /\ th[t].pc = "u_lookup"
  /\ IF th[t].page_id \notin DOMAIN page_table
       THEN Return(t, th[t].pins)
       ELSE IF pages[page_table[th[t].page_id]].pin_count = 0
         THEN Return(t, th[t].pins)
         ELSE th' = [th EXCEPT ![t].pc = "dec_read", ![t].frame_id = page_table[th[t].page_id]]
  /\ PoolSame
  /\ ConcKeep

\* page->pin_count_-- : the read
DecRead(t) ==
  /\ th[t].pc = "dec_read"
  /\ th' = [th EXCEPT ![t].pc = "dec_write", ![t].val = pages[th[t].frame_id].pin_count]
  /\ PoolSame
  /\ ConcKeep

\* page->pin_count_-- : the write
DecWrite(t) ==
  /\ th[t].pc = "dec_write"
  /\ PoolBecomes([St EXCEPT !.pages[th[t].frame_id].pin_count = th[t].val - 1])
  /\ Goto(t, "u_finish")
  /\ ConcKeep

\* UnpinPage: replacer_->Unpin when the count is 0, the dirty flag, return true
UnpinFinish(t) ==
  /\ th[t].pc = "u_finish"
  /\ LET f  == th[t].frame_id
         S1 == IF pages[f].pin_count = 0 THEN Unpin(St, f) ELSE St
     IN PoolBecomes(IF th[t].is_dirty THEN [S1 EXCEPT !.pages[f].is_dirty = TRUE] ELSE S1)
  /\ Return(t, th[t].pins \ {th[t].page_id})
  /\ ConcKeep

\* DeletePage: page_table_.find and the pin_count_ > 0 check
DeleteLookup(t) ==
  /\ th[t].pc = "d_lookup"
  /\ IF th[t].page_id \notin DOMAIN page_table
       THEN Return(t, th[t].pins)
       ELSE IF pages[page_table[th[t].page_id]].pin_count > 0
         THEN Return(t, th[t].pins)
         ELSE th' = [th EXCEPT ![t].pc = "d_update", ![t].frame_id = page_table[th[t].page_id]]
  /\ PoolSame
  /\ ConcKeep

\* DeletePage: UpdatePage(page, INVALID_PAGE_ID, frame_id)
DeleteUpdate(t) ==
  /\ th[t].pc = "d_update"
  /\ PoolBecomes(UpdatePage(St, th[t].frame_id, INVALID_PAGE_ID, th[t].frame_id))
  /\ Goto(t, "d_push")
  /\ ConcKeep

\* DeletePage: free_list_.push_back, return true
DeletePush(t) ==
  /\ th[t].pc = "d_push"
  /\ PoolBecomes([St EXCEPT !.free_list = Append(@, th[t].frame_id)])
  /\ Return(t, th[t].pins)
  /\ ConcKeep

NextConc ==
  \E t \in Threads :
    \/ CallNewPage(t)
    \/ CallFetchPage(t)
    \/ CallUnpinPage(t)
    \/ CallDeletePage(t)
    \/ FetchLookup(t)
    \/ HitPin(t)
    \/ IncRead(t)
    \/ IncWrite(t)
    \/ FindVictim(t)
    \/ PopFront(t)
    \/ Alloc(t)
    \/ Update(t)
    \/ PinFrame(t)
    \/ UnpinLookup(t)
    \/ DecRead(t)
    \/ DecWrite(t)
    \/ UnpinFinish(t)
    \/ DeleteLookup(t)
    \/ DeleteUpdate(t)
    \/ DeletePush(t)

SpecConc == Init /\ [][NextConc]_vars

\* ------------------------------------------------------------ page guards
\* W is the pool S together with the guard objects, the frame latches and the
\* two histories; the guard methods below are applied to it.
Wd == [st |-> St, guards |-> guards, latch |-> latch, unpins |-> unpins, bad |-> bad_unlatch]

WBecomes(W) ==
  /\ PoolBecomes(W.st)
  /\ guards' = W.guards
  /\ latch' = W.latch
  /\ unpins' = W.unpins
  /\ bad_unlatch' = W.bad
  /\ UNCHANGED <<dirtied, flushed, replvars, concvars, treevars>>

\* Page::RLatch / RUnlatch / WLatch / WUnlatch on the frame a guard points to.
\* Releasing a latch that is not held in that mode is undefined; ub chooses
\* between the two outcomes of the underlying lock: nothing happens, or a
\* hold of the other mode is released.
RLatch(W, f) == [W EXCEPT !.latch[f].readers = @ + 1]

WLatch(W, f) == [W EXCEPT !.latch[f].writer = TRUE]

RUnlatch(W, f, ub) ==
  IF W.latch[f].readers > 0
    THEN [W EXCEPT !.latch[f].readers = @ - 1]
    ELSE [W EXCEPT !.bad = TRUE, !.latch[f].writer = IF ub THEN FALSE ELSE @]

WUnlatch(W, f, ub) ==
  IF W.latch[f].writer
    THEN [W EXCEPT !.latch[f].writer = FALSE]
    ELSE [W EXCEPT !.bad = TRUE,
                   !.latch[f].readers = IF ub /\ @ > 0 THEN @ - 1 ELSE @]

\* Drop() returns at once for such a guard.
Empty(G) == ~G.bpm \/ G.page = NoFrame

\* BasicPageGuard(bpm, page), and the Read / Write guards built on it.
GuardCtor(kind, page, is_dirty, tok) ==
  [state |-> "alive", kind |-> kind, bpm |-> TRUE, page |-> page, is_dirty |-> is_dirty,
   tok |-> tok, moved |-> FALSE, own |-> page # NoFrame]

BasicPageGuardDrop(W, g) ==
  LET G == W.guards[g] IN
  IF G.bpm = FALSE \/ G.page = NoFrame THEN W
  ELSE LET r == UnpinPage(W.st, W.st.pages[G.page].page_id, G.is_dirty) IN
       [W EXCEPT !.st = r.st,
                 !.unpins[G.tok] = IF @ < 2 THEN @ + 1 ELSE @,
                 !.guards[g].bpm = FALSE,
                 !.guards[g].page = NoFrame]

\* BasicPageGuard(BasicPageGuard &&that), this = dst being constructed
BasicPageGuardMove(W, dst, src) ==
  LET W0 == [W EXCEPT !.guards[dst] = [NoGuard EXCEPT !.state = "alive", !.kind = W.guards[src].kind]]
      W1 == BasicPageGuardDrop(W0, dst)
      that == W1.guards[src]
  IN [W1 EXCEPT !.guards[dst].bpm = that.bpm,
                !.guards[dst].page = that.page,
                !.guards[dst].is_dirty = that.is_dirty,
                !.guards[dst].tok = that.tok,
                !.guards[src].bpm = FALSE,
                !.guards[src].is_dirty = FALSE,
                !.guards[src].moved = TRUE]

\* BasicPageGuard::operator=(BasicPageGuard &&that)
BasicPageGuardAssign(W, dst, src) ==
  LET W1 == BasicPageGuardDrop(W, dst)
      that == W1.guards[src]
  IN [W1 EXCEPT !.guards[dst].bpm = that.bpm,
                !.guards[dst].page = that.page,
                !.guards[dst].is_dirty = that.is_dirty,
                !.guards[dst].tok = that.tok,
                !.guards[dst].moved = FALSE,
                !.guards[src].moved = TRUE]

\* ReadPageGuard(ReadPageGuard &&that) and WritePageGuard(WritePageGuard &&that):
\* guard_ = std::move(that.guard_) on the default-constructed member
ReadPageGuardMove(W, dst, src) ==
  BasicPageGuardAssign([W EXCEPT !.guards[dst] = [NoGuard EXCEPT !.state = "alive", !.kind = W.guards[src].kind]],
                       dst, src)

WritePageGuardMove(W, dst, src) == ReadPageGuardMove(W, dst, src)

\* ReadPageGuard::operator= and WritePageGuard::operator=
ReadPageGuardAssign(W, dst, src) ==
  LET W1 == BasicPageGuardDrop(W, dst)
      that == W1.guards[src]
  IN [W1 EXCEPT !.guards[dst].bpm = that.bpm,
                !.guards[dst].page = that.page,
                !.guards[dst].is_dirty = that.is_dirty,
                !.guards[dst].tok = that.tok,
                !.guards[dst].moved = FALSE,
                !.guards[src].moved = TRUE]

WritePageGuardAssign(W, dst, src) == ReadPageGuardAssign(W, dst, src)

ReadPageGuardDrop(W, g, ub) ==
  LET G == W.guards[g] IN
  IF G.bpm = FALSE \/ G.page = NoFrame THEN W
  ELSE BasicPageGuardDrop(RUnlatch(W, G.page, ub), g)

WritePageGuardDrop(W, g, ub) ==
  LET G == W.guards[g] IN
  IF G.bpm = FALSE \/ G.page = NoFrame THEN W
  ELSE BasicPageGuardDrop(WUnlatch(RUnlatch(W, G.page, ub), G.page, ub), g)

Drop(W, g, ub) ==
  CASE W.guards[g].kind = "read" -> ReadPageGuardDrop(W, g, ub)
    [] W.guards[g].kind = "write" -> WritePageGuardDrop(W, g, ub)
    [] OTHER -> BasicPageGuardDrop(W, g)

\* The guarded fetchers of the pool: each returns {this, nullptr}.
FetchPageBasic(S, page_id) == [guard |-> GuardCtor("basic", NoFrame, FALSE, 0), st |-> S]

FetchPageRead(S, page_id) == [guard |-> GuardCtor("read", NoFrame, FALSE, 0), st |-> S]

FetchPageWrite(S, page_id) == [guard |-> GuardCtor("write", NoFrame, FALSE, 0), st |-> S]

NewPageGuarded(S) == [guard |-> GuardCtor("basic", NoFrame, FALSE, 0), st |-> S]

Kinds == {"basic", "read", "write"}

\* Guard objects are constructed in the order of their names.
Fresh(g) == guards[g].state = "unused" /\ \A h \in GuardIds : h < g => guards[h].state # "unused"

\* Taking the frame's latch for a guard of this kind does not block.
CanLatch(kind, f) ==
  CASE kind = "read" -> ~latch[f].writer
    [] kind = "write" -> ~latch[f].writer /\ latch[f].readers = 0
    [] OTHER -> TRUE

Latched(W, kind, f) ==
  CASE kind = "read" -> RLatch(W, f)
    [] kind = "write" -> WLatch(W, f)
    [] OTHER -> W

\* A caller pins a page with FetchPage, latches it for a Read or Write guard
\* and hands it to the guard's constructor.
GuardFetchedPage ==
  \E g \in GuardIds, kind \in Kinds, page_id \in Args \ {INVALID_PAGE_ID}, is_dirty \in BOOLEAN :
    LET r == FetchPage(St, page_id) IN
    /\ Fresh(g)
    /\ kind = "read" => ~is_dirty
    /\ kind = "write" => is_dirty
    /\ page_id \in DOMAIN page_table => pages[page_table[page_id]].pin_count < MaxPin
    /\ r.frame_id # NoFrame
    /\ CanLatch(kind, r.frame_id)
    /\ WBecomes(Latched([Wd EXCEPT !.st = r.st,
                                   !.guards[g] = GuardCtor(kind, r.frame_id, is_dirty, g)],
                        kind, r.frame_id))
    /\ UNCHANGED guard_last

\* The same with a page from NewPage.
GuardNewPage ==
  \E g \in GuardIds, kind \in Kinds, is_dirty \in BOOLEAN :
    LET r == NewPage(St) IN
    /\ Fresh(g)
    /\ kind = "read" => ~is_dirty
    /\ kind = "write" => is_dirty
    /\ next_page_id < MaxPages
    /\ r.frame_id # NoFrame
    /\ CanLatch(kind, r.frame_id)
    /\ WBecomes(Latched([Wd EXCEPT !.st = r.st,
                                   !.guards[g] = GuardCtor(kind, r.frame_id, is_dirty, g)],
                        kind, r.frame_id))
    /\ UNCHANGED guard_last

\* The calls of the guarded fetchers; the guard each returns is a temporary
\* whose destructor runs at once (Drop() of a guard without a page).
FetchPageBasicCall ==
  \E page_id \in Args \ {INVALID_PAGE_ID} :
    LET r == FetchPageBasic(St, page_id) IN
    /\ WBecomes([Wd EXCEPT !.st = r.st])
    /\ guard_last' = [by |-> "FetchPageBasic", avail |-> FetchPage(St, page_id).frame_id # NoFrame,
                      page |-> r.guard.page]

FetchPageReadCall ==
  \E page_id \in Args \ {INVALID_PAGE_ID} :
    LET r == FetchPageRead(St, page_id) IN
    /\ WBecomes([Wd EXCEPT !.st = r.st])
    /\ guard_last' = [by |-> "FetchPageRead", avail |-> FetchPage(St, page_id).frame_id # NoFrame,
                      page |-> r.guard.page]

FetchPageWriteCall ==
  \E page_id \in Args \ {INVALID_PAGE_ID} :
    LET r == FetchPageWrite(St, page_id) IN
    /\ WBecomes([Wd EXCEPT !.st = r.st])
    /\ guard_last' = [by |-> "FetchPageWrite", avail |-> FetchPage(St, page_id).frame_id # NoFrame,
                      page |-> r.guard.page]

NewPageGuardedCall ==
    LET r == NewPageGuarded(St) IN
    /\ next_page_id < MaxPages
    /\ WBecomes([Wd EXCEPT !.st = r.st])
    /\ guard_last' = [by |-> "NewPageGuarded", avail |-> NewPage(St).frame_id # NoFrame,
                      page |-> r.guard.page]

MoveConstructCall ==
  \E dst \in GuardIds, src \in GuardIds :
    /\ Fresh(dst)
    /\ guards[src].state = "alive"
    /\ WBecomes(CASE guards[src].kind = "read" -> ReadPageGuardMove(Wd, dst, src)
                  [] guards[src].kind = "write" -> WritePageGuardMove(Wd, dst, src)
                  [] OTHER -> BasicPageGuardMove(Wd, dst, src))
    /\ UNCHANGED guard_last

MoveAssignCall ==
  \E dst \in GuardIds, src \in GuardIds :
    /\ dst # src
    /\ guards[dst].state = "alive"
    /\ guards[src].state = "alive"
    /\ guards[dst].kind = guards[src].kind
    /\ WBecomes(CASE guards[src].kind = "read" -> ReadPageGuardAssign(Wd, dst, src)
                  [] guards[src].kind = "write" -> WritePageGuardAssign(Wd, dst, src)
                  [] OTHER -> BasicPageGuardAssign(Wd, dst, src))
    /\ UNCHANGED guard_last

DropCall ==
  \E g \in GuardIds, ub \in BOOLEAN :
    /\ guards[g].state = "alive"
    /\ WBecomes(Drop(Wd, g, ub))
    /\ UNCHANGED guard_last

\* ~BasicPageGuard, ~ReadPageGuard, ~WritePageGuard
DestroyCall ==
  \E g \in GuardIds, ub \in BOOLEAN :
    /\ guards[g].state = "alive"
    /\ WBecomes([Drop(Wd, g, ub) EXCEPT !.guards[g].state = "dead"])
    /\ UNCHANGED guard_last

NextGuard ==
  \/ GuardFetchedPage
  \/ GuardNewPage
  \/ FetchPageBasicCall
  \/ FetchPageReadCall
  \/ FetchPageWriteCall
  \/ NewPageGuardedCall
  \/ MoveConstructCall
  \/ MoveAssignCall
  \/ DropCall
  \/ DestroyCall

SpecGuard == Init /\ [][NextGuard]_vars

\* ------------------------------------------------------------------ claims
Resident(f) == pages[f].page_id # INVALID_PAGE_ID

InFreeList(f) == \E i \in 1 .. Len(free_list) : free_list[i] = f

\* The calls a caller can make in the current state, each with its result.
NewPageResults == IF next_page_id < MaxPages THEN {NewPage(St)} ELSE {}

FetchMissResults == {FetchPage(St, p) : p \in Args \ DOMAIN page_table}

\* Loads: the NewPage and FetchPage-miss calls that obtained a frame.
Loads == {r \in NewPageResults \cup FetchMissResults : r.frame_id # NoFrame}

Wrote(S, page_id) == \E i \in 1 .. Len(S.io) : S.io[i] = [op |-> "W", id |-> page_id]

\* C1: every frame has pin_count >= 0, and a resident frame is a replacer
\* candidate (its reference bit is set) exactly when its pin_count is 0.
C1_PinCandidate ==
  \A f \in Frames :
    /\ pages[f].pin_count >= 0
    /\ Resident(f) => (ref_flag[f] <=> pages[f].pin_count = 0)

C1_Witness ==
  \E f, g \in Frames :
    /\ Resident(f) /\ pages[f].pin_count = 0 /\ ref_flag[f]
    /\ Resident(g) /\ pages[g].pin_count > 0 /\ ~ref_flag[g]

\* C2: the frame NewPage or a FetchPage miss obtains has pin_count 0 when it is
\* selected; it is the head of the free list whenever the free list is
\* non-empty and a replacer candidate only otherwise; a resident frame with
\* pin_count > 0 keeps its page across every load.
C2_VictimUnpinned ==
  \A r \in Loads :
    /\ pages[r.frame_id].pin_count = 0
    /\ free_list # <<>> =>
         /\ r.frame_id = Head(free_list)
         /\ r.st.free_list = Tail(free_list)
         /\ r.st.ref_flag = [ref_flag EXCEPT ![r.frame_id] = FALSE]
    /\ free_list = <<>> =>
         /\ ref_flag[r.frame_id]
         /\ r.st.free_list = <<>>
    /\ \A f \in Frames :
         Resident(f) /\ pages[f].pin_count > 0 =>
           /\ r.st.pages[f].page_id = pages[f].page_id
           /\ pages[f].page_id \in DOMAIN r.st.page_table

\* A load that takes its frame from the replacer while another page is pinned.
C2_Witness ==
  /\ free_list = <<>>
  /\ \E f \in Frames : Resident(f) /\ pages[f].pin_count > 0
  /\ \E r \in Loads : r.src = "replacer" /\ Resident(r.frame_id)

\* C3: when a load reuses a frame that holds a resident page q, q is written
\* to disk exactly when the frame is dirty, which is exactly when some
\* UnpinPage(q, true) took effect since q was last loaded or flushed; after
\* the load q has no page-table entry.
C3_WriteBackIffDirty ==
  /\ \A f \in Frames : Resident(f) => (pages[f].is_dirty <=> pages[f].page_id \in dirtied)
  /\ \A r \in Loads :
       Resident(r.frame_id) =>
         LET q == pages[r.frame_id].page_id IN
         /\ Wrote(r.st, q) <=> pages[r.frame_id].is_dirty
         /\ Wrote(r.st, q) <=> q \in dirtied
         /\ q \notin DOMAIN r.st.page_table

\* A dirty and a clean unpinned page, one of which the next load evicts.
C3_Witness ==
  /\ free_list = <<>>
  /\ \E r \in Loads : Resident(r.frame_id) /\ pages[r.frame_id].is_dirty /\ Wrote(r.st, pages[r.frame_id].page_id)
  /\ \E f \in Frames : Resident(f) /\ pages[f].pin_count = 0 /\ ~pages[f].is_dirty

\* C4: a frame is in the free list exactly when it is non-resident and has
\* pin_count 0; every frame the page table names is resident.
C4_FreeListNonResident ==
  /\ \A f \in Frames : InFreeList(f) <=> (~Resident(f) /\ pages[f].pin_count = 0)
  /\ \A p \in DOMAIN page_table : Resident(page_table[p])

\* A frame DeletePage returned to the free list (its reference bit is still set), next to a mapped one.
C4_Witness ==
  /\ \E f \in Frames : InFreeList(f) /\ ref_flag[f]
  /\ DOMAIN page_table # {}

\* C5: for every page-table entry page_id -> frame the frame's page_id_ is
\* page_id, and no two page ids map to the same frame.
C5_PageTableConsistent ==
  /\ \A p \in DOMAIN page_table : pages[page_table[p]].page_id = p
  /\ \A p, q \in DOMAIN page_table : page_table[p] = page_table[q] => p = q

\* A full page table after more pages were allocated than there are frames.
C5_Witness ==
  /\ Cardinality(DOMAIN page_table) = PoolSize
  /\ next_page_id > PoolSize

AnyPageId == {INVALID_PAGE_ID} \cup PageIds

Unpinned == {f \in Frames : pages[f].pin_count = 0}

\* C6: with an empty free list and every frame pinned, NewPage and a FetchPage
\* of a non-resident page return nothing and change nothing; with an empty
\* free list and some frame unpinned, NewPage succeeds by evicting an unpinned
\* resident page (the unpinned one, when there is just one), whose contents
\* are on disk afterwards if it was dirty.
C6_ExhaustedThenEvict ==
  /\ (free_list = <<>> /\ Unpinned = {}) =>
       \A r \in NewPageResults \cup FetchMissResults : r.frame_id = NoFrame /\ r.st = St
  /\ (free_list = <<>> /\ Unpinned # {}) =>
       \A r \in NewPageResults :
         /\ r.frame_id \in Unpinned
         /\ Resident(r.frame_id)
         /\ LET q == pages[r.frame_id].page_id IN
            /\ q \notin DOMAIN r.st.page_table
            /\ pages[r.frame_id].is_dirty => r.st.disk[q] = pages[r.frame_id].data
         /\ r.page_id \in DOMAIN r.st.page_table
         /\ r.st.page_table[r.page_id] = r.frame_id
         /\ r.st.pages[r.frame_id].pin_count = 1

\* Every frame but one is pinned; the unpinned page is dirty and differs from its disk copy.
C6_Witness ==
  /\ free_list = <<>>
  /\ NewPageResults # {}
  /\ \E f \in Frames :
       /\ Unpinned = {f}
       /\ Resident(f)
       /\ pages[f].is_dirty
       /\ pages[f].data # disk[pages[f].page_id]

C8_DeletePage ==
  \A p \in AnyPageId :
    LET r == DeletePage(St, p) IN
    IF p \notin DOMAIN page_table
      THEN r.ret /\ r.st = St
      ELSE LET f == page_table[p] IN
           IF pages[f].pin_count > 0
             THEN ~r.ret /\ r.st = St
             ELSE /\ r.ret
                  /\ Wrote(r.st, p) <=> pages[f].is_dirty
                  /\ pages[f].is_dirty => r.st.disk[p] = pages[f].data
                  /\ r.st.page_table = Erase(page_table, p)
                  /\ r.st.pages[f] = [page_id |-> INVALID_PAGE_ID, pin_count |-> 0, is_dirty |-> FALSE, data |-> 0]
                  /\ r.st.free_list = Append(free_list, f)
                  /\ \A g \in Frames \ {f} : r.st.pages[g] = pages[g]

\* A deleted frame at the tail of the free list, a pinned page and an unpinned dirty page.
C8_Witness ==
  /\ free_list # <<>>
  /\ ref_flag[free_list[Len(free_list)]]
  /\ \E p \in DOMAIN page_table : ~DeletePage(St, p).ret

\* C9: FlushPage of a resident page writes its data to disk, clears the dirty
\* flag and changes nothing else; a FetchPage of p after a FlushPage(p), with
\* no store to p in between, yields the data p had at the flush.
C9_FlushThenFetch ==
  /\ \A p \in DOMAIN page_table :
       LET r == FlushPage(St, p)
           f == page_table[p]
       IN /\ r.ret
          /\ r.st = [St EXCEPT !.pages[f].is_dirty = FALSE,
                               !.disk[p] = pages[f].data,
                               !.io = <<[op |-> "W", id |-> p]>>]
  /\ \A p \in Args \ {INVALID_PAGE_ID} :
       flushed[p] # NoData =>
         LET r == FetchPage(St, p) IN
         r.frame_id # NoFrame => r.st.pages[r.frame_id].data = flushed[p]

\* A page flushed with non-zero data and since evicted, which FetchPage reads back.
C9_Witness ==
  \E p \in Args \ {INVALID_PAGE_ID} :
    /\ flushed[p] \notin {NoData, 0}
    /\ p \notin DOMAIN page_table
    /\ FetchPage(St, p).src = "replacer"

\* C10: no pool operation passes INVALID_PAGE_ID to the disk manager's
\* ReadPage or WritePage.
C10_NoInvalidDiskIO == ~invalid_io

\* C12: ClockReplacer is classical CLOCK: Unpin(f) sets f's bit and Pin(f)
\* clears it, and every Victim call returns the slot the second-chance scan
\* of the design returns on the same sequence of calls (a set bit at the hand
\* is cleared and passed over, a candidate whose bit is clear is returned).
C12_ClassicalClock ==
  /\ \A f \in Slots : Unpin(rep, f).ref_flag[f] /\ ~Pin(rep, f).ref_flag[f]
  /\ rep_last.op = "Victim" => rep_last.got = rep_last.want

Candidates(S) == {i \in 0 .. (S.num_pages - 1) : S.ref_flag[i]}

\* C13: Size() is the number of frames whose most recent event was Unpin;
\* Victim returns no frame exactly when Size() is 0 (and then changes
\* nothing); a successful Victim returns one of those frames, removes exactly
\* that frame from the candidates and lowers Size() by exactly 1.
C13_SizeAndVictim ==
  /\ Size(rep) = Cardinality(unpinned)
  /\ Candidates(rep) = unpinned
  /\ LET v == Victim(rep) IN
     /\ v.found <=> Size(rep) # 0
     /\ ~v.found => v.frame_id = NoFrame /\ v.st = rep
     /\ v.found =>
          /\ v.frame_id \in unpinned
          /\ Candidates(v.st) = unpinned \ {v.frame_id}
          /\ Size(v.st) = Size(rep) - 1

\* A successful Victim that left two other candidates behind.
C13_Witness ==
  /\ rep_last.op = "Victim"
  /\ rep_last.got # NoFrame
  /\ Cardinality(unpinned) = NumPages - 1
  /\ Size(rep) = NumPages - 1

Quiescent == \A t \in Threads : th[t].pc = "idle"

\* The threads that hold a pin on page p: their FetchPage / NewPage returned
\* the page and they have not had an UnpinPage of it return true since.
Holders(p) == {t \in Threads : p \in th[t].pins}

\* C11: whenever no pool call is in progress, for any interleaving of the
\* threads' NewPage, FetchPage, UnpinPage and DeletePage calls: a page some
\* thread holds a pin on is resident in the frame the page table names, every
\* resident frame's pin_count is the number of outstanding pins on its page,
\* a frame with pin_count > 0 is no replacer candidate, and no frame is
\* handed to two pages.
C11_ThreadSafe ==
  Quiescent =>
    /\ \A p \in PageIds :
         Holders(p) # {} => p \in DOMAIN page_table /\ pages[page_table[p]].page_id = p
    /\ \A f \in Frames :
         Resident(f) => pages[f].pin_count = Cardinality(Holders(pages[f].page_id))
    /\ \A f \in Frames : pages[f].pin_count > 0 => ~ref_flag[f]
    /\ \A p, q \in DOMAIN page_table : page_table[p] = page_table[q] => p = q
    /\ \A p \in DOMAIN page_table : pages[page_table[p]].page_id = p

\* C14: the pin a guard was constructed with is released exactly once: no
\* more than one UnpinPage call is ever made for it, a guard that was moved
\* from (by move construction or move assignment) is empty, and once every
\* guard is destroyed exactly one UnpinPage call was made for each pin.
C14_PinReleasedOnce ==
  /\ \A g \in GuardIds : unpins[g] <= 1
  /\ \A g \in GuardIds : guards[g].moved => Empty(guards[g])
  /\ (\A g \in GuardIds : guards[g].state # "alive") =>
       \A g \in GuardIds : guards[g].own => unpins[g] = 1

\* C15: no guard's Drop releases a latch in a mode in which it is not held
\* (a Write guard releases its W-latch and no R-latch, a Read guard its
\* R-latch), and whenever a latch is held on a frame the frame's pin_count
\* is > 0.
C15_LatchThenUnpin ==
  /\ ~bad_unlatch
  /\ \A f \in Frames : (latch[f].readers > 0 \/ latch[f].writer) => pages[f].pin_count > 0

\* C16: a guard returned by FetchPageBasic / FetchPageRead / FetchPageWrite /
\* NewPageGuarded owns a page whenever FetchPage / NewPage has a frame for
\* the request; it is empty only when no frame is available.
C16_GuardsWired == guard_last.avail => guard_last.page # NoFrame

\* ------------------------------------------------------------ B+tree pages
IsLeafPage(N) == N.page_type = "LEAF_PAGE"

IsRootPage(N) == N.parent_page_id = INVALID_PAGE_ID

GetMinSize(N) == IF IsLeafPage(N) THEN N.max_size \div 2 ELSE (N.max_size + 1) \div 2

\* items[0 .. n-1] of a C array starting at slot start, as a sequence
Items(N, start, n) == [j \in 1 .. n |-> N.array[start + j - 1]]

\* ---- BPlusTreeLeafPage
LeafInit(N, page_id, parent_page_id, max_size) ==
  [N EXCEPT !.page_type = "LEAF_PAGE", !.page_id = page_id, !.parent_page_id = parent_page_id,
            !.size = 0, !.max_size = max_size, !.next_page_id = INVALID_PAGE_ID]

RECURSIVE KeyIndexLoop(_, _, _, _)
KeyIndexLoop(N, key, left, right) ==
  IF left > right THEN right + 1
  ELSE LET mid == left + ((right - left) \div 2) IN
       IF N.array[mid].first >= key THEN KeyIndexLoop(N, key, left, mid - 1)
       ELSE KeyIndexLoop(N, key, mid + 1, right)

KeyIndex(N, key) == KeyIndexLoop(N, key, 0, N.size - 1)

\* the page after Insert; the size it returns is the size of that page
LeafInsert(N, key, value) ==
  LET insert_index == KeyIndex(N, key) IN
  IF N.array[insert_index].first = key THEN N
  ELSE [N EXCEPT !.array = [i \in ArrayIdx |->
                              IF i = insert_index THEN [first |-> key, second |-> value]
                              ELSE IF i > insert_index /\ i <= N.size THEN N.array[i - 1]
                              ELSE N.array[i]],
                 !.size = @ + 1]

LeafLookup(N, key) ==
  LET target_index == KeyIndex(N, key) IN
  IF target_index = N.size \/ key # N.array[target_index].first
    THEN [found |-> FALSE, value |-> 0]
    ELSE [found |-> TRUE, value |-> N.array[target_index].second]

\* the value of return type bool made of an int, read back as an int
BoolOf(n) == IF n # 0 THEN 1 ELSE 0

LeafRemoveAndDeleteRecord(N, key) ==
  LET target_index == KeyIndex(N, key) IN
  IF target_index = N.size \/ key # N.array[target_index].first
    THEN [ret |-> BoolOf(N.size), node |-> N]
    ELSE LET size == N.size - 1 IN
         [ret |-> BoolOf(size),
          node |-> [N EXCEPT !.size = size,
                             !.array = [i \in ArrayIdx |->
                                          IF i >= target_index /\ i < size THEN N.array[i + 1]
                                          ELSE N.array[i]]]]

LeafCopyNFrom(R, items) ==
  [R EXCEPT !.array = [i \in ArrayIdx |->
                         IF i >= R.size /\ i < R.size + Len(items) THEN items[i - R.size + 1]
                         ELSE R.array[i]],
            !.size = @ + Len(items)]

LeafCopyFirstFrom(R, item) ==
  [R EXCEPT !.array = [i \in ArrayIdx |->
                         IF i = 0 THEN item
                         ELSE IF i <= R.size + 1 THEN R.array[i - 1]
                         ELSE R.array[i]],
            !.size = @ + 1]

LeafCopyLastFrom(R, item) ==
  [R EXCEPT !.array[R.size] = item, !.size = @ + 1]

LeafMoveHalfTo(N, R) ==
  LET start_index == GetMinSize(N)
      move_num == N.size - start_index IN
  [node |-> [N EXCEPT !.size = @ - move_num],
   recipient |-> LeafCopyNFrom(R, Items(N, start_index, move_num))]

LeafMoveAllTo(N, R) ==
  [node |-> [N EXCEPT !.size = 0], recipient |-> LeafCopyNFrom(R, Items(N, 0, N.size))]

LeafMoveFirstToEndOf(N, R) ==
  LET size == N.size - 1 IN
  [node |-> [N EXCEPT !.size = size,
                      !.array = [i \in ArrayIdx |-> IF i < size THEN N.array[i + 1] ELSE N.array[i]]],
   recipient |-> LeafCopyLastFrom(R, N.array[0])]

LeafMoveLastToFrontOf(N, R) ==
  [node |-> [N EXCEPT !.size = @ - 1], recipient |-> LeafCopyFirstFrom(R, N.array[N.size - 1])]

\* ---- BPlusTreeInternalPage (T is the tree; pid, rid are page ids of T.pages)
InternalInit(N, page_id, parent_page_id, max_size) ==
  [N EXCEPT !.page_type = "INTERNAL_PAGE", !.page_id = page_id, !.parent_page_id = parent_page_id,
            !.size = 0, !.max_size = max_size]

KeyAt(N, index) == N.array[index].first

ValueAt(N, index) == N.array[index].second

SetKeyAt(N, index, key) == [N EXCEPT !.array[index].first = key]

\* the least index i < size with array_[i].second = value, -1 when there is none
ValueIndex(N, value) ==
  LET found == {i \in 0 .. (N.size - 1) : N.array[i].second = value} IN
  IF found = {} THEN 0 - 1 ELSE CHOOSE i \in found : \A j \in found : i <= j

RECURSIVE InternalLookupLoop(_, _, _, _)
InternalLookupLoop(N, key, left, right) ==
  IF left > right THEN left
  ELSE LET mid == left + ((right - left) \div 2) IN
       IF KeyAt(N, mid) > key THEN InternalLookupLoop(N, key, left, mid - 1)
       ELSE InternalLookupLoop(N, key, mid + 1, right)

InternalLookup(N, key) ==
  LET target_index == InternalLookupLoop(N, key, 1, N.size - 1) IN
  ValueAt(N, target_index - 1)

PopulateNewRoot(N, old_value, new_key, new_value) ==
  [N EXCEPT !.array[0].second = old_value,
            !.array[1] = [first |-> new_key, second |-> new_value],
            !.size = 2]

InsertNodeAfter(N, old_value, new_key, new_value) ==
  LET insert_index == ValueIndex(N, old_value) + 1 IN
  [N EXCEPT !.array = [i \in ArrayIdx |->
                         IF i = insert_index THEN [first |-> new_key, second |-> new_value]
                         ELSE IF i > insert_index /\ i <= N.size THEN N.array[i - 1]
                         ELSE N.array[i]],
            !.size = @ + 1]

InternalRemove(N, index) ==
  LET size == N.size - 1 IN
  [N EXCEPT !.size = size,
            !.array = [i \in ArrayIdx |-> IF i >= index /\ i < size THEN N.array[i + 1] ELSE N.array[i]]]

RemoveAndReturnOnlyChild(N) == [ret |-> ValueAt(N, 0), node |-> [N EXCEPT !.size = 0]]

\* SetParentPageId that leaves the parent_page_id of the child as it is.
SetParentPageIdSkipped(T, child, parent_page_id) == T

\* FetchPageBasic(child), SetParentPageId, UnpinPage(child, true)
SetParentPageId(T, child, parent_page_id) ==
  [T EXCEPT !.pages[child].parent_page_id = parent_page_id]

RECURSIVE Reparent(_, _, _, _)
Reparent(T, rid, i, last) ==
  IF i >= last THEN T
  ELSE Reparent(SetParentPageId(T, ValueAt(T.pages[rid], i), T.pages[rid].page_id), rid, i + 1, last)

InternalCopyNFrom(T, rid, items) ==
  LET R == T.pages[rid]
      T1 == [T EXCEPT !.pages[rid].array =
               [i \in ArrayIdx |->
                  IF i >= R.size /\ i < R.size + Len(items) THEN items[i - R.size + 1]
                  ELSE R.array[i]]]
      T2 == Reparent(T1, rid, R.size, R.size + Len(items)) IN
  [T2 EXCEPT !.pages[rid].size = @ + Len(items)]

InternalCopyFirstFrom(T, rid, item) ==
  LET R == T.pages[rid]
      T1 == [T EXCEPT !.pages[rid].array =
               [i \in ArrayIdx |->
                  IF i = 0 THEN item
                  ELSE IF i <= R.size + 1 THEN R.array[i - 1]
                  ELSE R.array[i]]]
      T2 == SetParentPageId(T1, ValueAt(T1.pages[rid], 0), R.page_id) IN
  [T2 EXCEPT !.pages[rid].size = @ + 1]

InternalCopyLastFrom(T, rid, item) ==
  LET R == T.pages[rid]
      T1 == [T EXCEPT !.pages[rid].array[R.size] = item]
      T2 == SetParentPageId(T1, ValueAt(T1.pages[rid], R.size), R.page_id) IN
  [T2 EXCEPT !.pages[rid].size = @ + 1]

InternalMoveHalfTo(T, pid, rid) ==
  LET N == T.pages[pid]
      start_index == GetMinSize(N)
      move_num == N.size - start_index
      T1 == InternalCopyNFrom(T, rid, Items(N, start_index, move_num)) IN
  [T1 EXCEPT !.pages[pid].size = @ - move_num]

InternalMoveAllTo(T, pid, rid, middle_key) ==
  LET T1 == [T EXCEPT !.pages[pid] = SetKeyAt(@, 0, middle_key)]
      N == T1.pages[pid]
      T2 == InternalCopyNFrom(T1, rid, Items(N, 0, N.size)) IN
  [T2 EXCEPT !.pages[pid].size = 0]

InternalMoveFirstToEndOf(T, pid, rid, middle_key) ==
  LET T1 == [T EXCEPT !.pages[pid] = SetKeyAt(@, 0, middle_key)]
      T2 == InternalCopyLastFrom(T1, rid, T1.pages[pid].array[0]) IN
  [T2 EXCEPT !.pages[pid] = InternalRemove(@, 0)]

InternalMoveLastToFrontOf(T, pid, rid, middle_key) ==
  LET T1 == [T EXCEPT !.pages[rid] = SetKeyAt(@, 0, middle_key)]
      N == T1.pages[pid]
      T2 == InternalCopyFirstFrom(T1, rid, N.array[N.size - 1]) IN
  [T2 EXCEPT !.pages[pid].size = @ - 1]

\* ---------------------------------------------------------------- BPlusTree
\* The tree reaches its pages through NewPageGuarded / FetchPageRead / FetchPageWrite /
\* FetchPageBasic as the design describes them: a guard on the page asked for.  T.pages[p] is
\* the content of tree page p, in a frame or on disk; page ids are never handed out twice, the
\* header page has the first one.  T.pages[header_page_id] is the header page read as a tree
\* page: root_page_id_ lies where a tree page has page_type_, the rest of the page is zeroed.
IsEmpty(T) == T.root_page_id = INVALID_PAGE_ID

GetRootPageId(T) == T.root_page_id

UpdateRootPageId(T, page_id) ==
  [T EXCEPT !.root_page_id = page_id, !.pages[header_page_id].page_type = AsPageType(page_id)]

\* NewPageGuarded(&new_page_id): the next page id, on a zeroed page
NewTreePage(T) ==
  [page_id |-> T.next_page_id,
   st |-> [T EXCEPT !.next_page_id = @ + 1,
                    !.pages = @ @@ (T.next_page_id :> ZeroPage)]]

Called(T, name) == [T EXCEPT !.calls = @ \cup {name}]

\* The page FetchPageWrite(page_id) gives: the frame FetchPage(INVALID_PAGE_ID) fills is zeroed.
PageOf(T, page_id) == IF page_id \in DOMAIN T.pages THEN T.pages[page_id] ELSE ZeroPage

\* The descent of FindLeafPageByOperation with leftMost = rightMost = false, n pages at most.
\* A descent that has visited more pages than there are visits a page again and does not
\* end: the result is INVALID_PAGE_ID.
RECURSIVE Descend(_, _, _, _)
Descend(T, page_id, key, n) ==
  IF n = 0 THEN INVALID_PAGE_ID
  ELSE IF IsLeafPage(PageOf(T, page_id)) THEN page_id
  ELSE Descend(T, InternalLookup(PageOf(T, page_id), key), key, n - 1)

FindLeafPageByOperation(T, key) == Descend(T, T.root_page_id, key, T.next_page_id + 1)

\* GetValue does not ask IsEmpty; returns is FALSE when its descent does not end.
GetValue(T, key) ==
  LET leaf == FindLeafPageByOperation(T, key) IN
  IF leaf = INVALID_PAGE_ID
    THEN [returns |-> FALSE, found |-> FALSE, value |-> 0]
    ELSE LET r == LeafLookup(T.pages[leaf], key) IN
         [returns |-> TRUE, found |-> r.found, value |-> r.value]

StartNewTree(T, key, value) ==
  LET n == NewTreePage(T)
      T1 == UpdateRootPageId(n.st, n.page_id) IN
  [T1 EXCEPT !.pages[n.page_id] =
     LeafInsert(LeafInit(@, n.page_id, INVALID_PAGE_ID, leaf_max_size), key, value)]

Split(T, page_id) ==
  LET n == NewTreePage(T)
      T1 == n.st
      node == T1.pages[page_id]
      new_node == [T1.pages[n.page_id] EXCEPT !.page_type = node.page_type] IN
  IF IsLeafPage(node)
    THEN LET m == LeafMoveHalfTo(node, LeafInit(new_node, n.page_id, node.parent_page_id, leaf_max_size)) IN
         [page_id |-> n.page_id,
          st |-> [T1 EXCEPT !.pages[n.page_id] = [m.recipient EXCEPT !.next_page_id = node.next_page_id],
                            !.pages[page_id] = [m.node EXCEPT !.next_page_id = n.page_id]]]
    ELSE LET T2 == [T1 EXCEPT !.pages[n.page_id] =
                      InternalInit(new_node, n.page_id, node.parent_page_id, internal_max_size)] IN
         [page_id |-> n.page_id, st |-> InternalMoveHalfTo(T2, page_id, n.page_id)]

RECURSIVE InsertIntoParent(_, _, _, _)
InsertIntoParent(T, old_node, key, new_node) ==
  IF IsRootPage(T.pages[old_node])
    THEN LET n == NewTreePage(T)
             T1 == UpdateRootPageId(n.st, n.page_id)
             T2 == [T1 EXCEPT !.pages[n.page_id] =
                      PopulateNewRoot(InternalInit(@, n.page_id, INVALID_PAGE_ID, internal_max_size),
                                      T1.pages[old_node].page_id, key, T1.pages[new_node].page_id)] IN
         [T2 EXCEPT !.pages[old_node].parent_page_id = n.page_id,
                    !.pages[new_node].parent_page_id = n.page_id]
    ELSE LET parent == T.pages[old_node].parent_page_id
             T1 == [T EXCEPT !.pages[parent] =
                      InsertNodeAfter(@, T.pages[old_node].page_id, key, T.pages[new_node].page_id)] IN
         IF T1.pages[parent].size < T1.pages[parent].max_size THEN T1
         ELSE LET s == Split(T1, parent) IN
              InsertIntoParent(s.st, parent, KeyAt(s.st.pages[s.page_id], 0), s.page_id)

InsertIntoLeaf(T, key, value) ==
  LET leaf == FindLeafPageByOperation(T, key)
      size == T.pages[leaf].size
      T1 == [T EXCEPT !.pages[leaf] = LeafInsert(@, key, value)]
      new_size == T1.pages[leaf].size IN
  IF new_size = size THEN [ret |-> FALSE, st |-> T1]
  ELSE IF new_size < T1.pages[leaf].max_size THEN [ret |-> TRUE, st |-> T1]
  ELSE LET s == Split(T1, leaf) IN
       [ret |-> TRUE, st |-> InsertIntoParent(s.st, leaf, KeyAt(s.st.pages[s.page_id], 0), s.page_id)]

Insert(T, key, value) ==
  LET T0 == [T EXCEPT !.calls = {}] IN
  IF IsEmpty(T0) THEN [ret |-> TRUE, st |-> StartNewTree(T0, key, value)]
  ELSE InsertIntoLeaf(T0, key, value)

AddIntoDeletedPageSet(T, page_id) == [T EXCEPT !.deleted_page_set = @ \cup {page_id}]

\* the loop at the end of Remove: DeletePage for each page of the deleted-page set, then clear
DeletePages(T) == [T EXCEPT !.deleted = @ \cup T.deleted_page_set, !.deleted_page_set = {}]

AdjustRoot(T, old_root_node) ==
  LET T0 == Called(T, "AdjustRoot")
      N == T0.pages[old_root_node] IN
  IF ~IsLeafPage(N) /\ N.size = 1
    THEN LET r == RemoveAndReturnOnlyChild(N)
             T1 == UpdateRootPageId([T0 EXCEPT !.pages[old_root_node] = r.node], r.ret) IN
         [del |-> TRUE, st |-> SetParentPageId(T1, GetRootPageId(T1), INVALID_PAGE_ID)]
  ELSE IF IsLeafPage(N) /\ N.size = 0
    THEN [del |-> TRUE, st |-> UpdateRootPageId(T0, INVALID_PAGE_ID)]
  ELSE [del |-> FALSE, st |-> T0]

Redistribute(T, neighbor_node, node, index) ==
  LET T0 == Called(T, "Redistribute")
      parent == T0.pages[node].parent_page_id IN
  IF IsLeafPage(T0.pages[node])
    THEN IF index = 0
           THEN LET m == LeafMoveFirstToEndOf(T0.pages[neighbor_node], T0.pages[node]) IN
                [T0 EXCEPT !.pages[neighbor_node] = m.node, !.pages[node] = m.recipient,
                           !.pages[parent] = SetKeyAt(@, 1, KeyAt(m.node, 0))]
           ELSE LET m == LeafMoveLastToFrontOf(T0.pages[neighbor_node], T0.pages[node]) IN
                [T0 EXCEPT !.pages[neighbor_node] = m.node, !.pages[node] = m.recipient,
                           !.pages[parent] = SetKeyAt(@, index, KeyAt(m.recipient, 0))]
    ELSE IF index = 0
           THEN LET T1 == InternalMoveFirstToEndOf(T0, neighbor_node, node, KeyAt(T0.pages[parent], 1)) IN
                [T1 EXCEPT !.pages[parent] = SetKeyAt(@, 1, KeyAt(T1.pages[neighbor_node], 0))]
           ELSE LET T1 == InternalMoveLastToFrontOf(T0, neighbor_node, node, KeyAt(T0.pages[parent], index)) IN
                [T1 EXCEPT !.pages[parent] = SetKeyAt(@, index, KeyAt(T1.pages[node], 0))]

RECURSIVE CoalesceOrRedistribute(_, _)
RECURSIVE Coalesce(_, _, _, _, _)
Coalesce(T, neighbor_node, node, parent, index) ==
  LET T0 == Called(T, "Coalesce")
      key_index == IF index = 0 THEN 1 ELSE index
      from == IF index = 0 THEN neighbor_node ELSE node    \* *node after std::swap
      to == IF index = 0 THEN node ELSE neighbor_node      \* *neighbor_node after std::swap
      middle_key == KeyAt(T0.pages[parent], key_index)
      T1 == IF IsLeafPage(T0.pages[from])
              THEN LET m == LeafMoveAllTo(T0.pages[from], T0.pages[to]) IN
                   [T0 EXCEPT !.pages[from] = m.node,
                              !.pages[to] = [m.recipient EXCEPT !.next_page_id = m.node.next_page_id]]
              ELSE InternalMoveAllTo(T0, from, to, middle_key)
      T2 == [T1 EXCEPT !.pages[parent] = InternalRemove(@, key_index)] IN
  CoalesceOrRedistribute(T2, parent)

\* When the parent does not hold node among its first size entries ValueIndex is -1 and the
\* sibling is read at array_[-2], outside the array: what the call does from there on is not
\* defined.  out_of_array records that this has happened; Remove then leaves the pages as they
\* were before the call and no further call is made on the tree.
CoalesceOrRedistribute(T, node) ==
  LET T0 == Called(T, "CoalesceOrRedistribute")
      N == T0.pages[node] IN
  IF IsRootPage(N) THEN AdjustRoot(T0, node)
  ELSE IF N.size >= GetMinSize(N) THEN [del |-> FALSE, st |-> T0]
  ELSE LET parent == N.parent_page_id
           index == ValueIndex(T0.pages[parent], N.page_id)
           sibling == ValueAt(T0.pages[parent], IF index = 0 THEN 1 ELSE index - 1) IN
       IF index < 0 THEN [del |-> FALSE, st |-> [T0 EXCEPT !.out_of_array = TRUE]]
       ELSE IF N.size + T0.pages[sibling].size >= N.max_size
         THEN [del |-> FALSE, st |-> Redistribute(T0, sibling, node, index)]
         ELSE LET c == Coalesce(T0, sibling, node, parent, index) IN
              [del |-> TRUE,
               st |-> IF c.del THEN AddIntoDeletedPageSet(c.st, c.st.pages[parent].page_id) ELSE c.st]

Remove(T, key) ==
  LET T0 == [T EXCEPT !.calls = {}] IN
  IF IsEmpty(T0) THEN T0
  ELSE LET leaf == FindLeafPageByOperation(T0, key)
           old_size == T0.pages[leaf].size
           r == LeafRemoveAndDeleteRecord(T0.pages[leaf], key)
           T1 == [T0 EXCEPT !.pages[leaf] = r.node]
           new_size == r.ret IN
       IF new_size = old_size THEN T1
       ELSE LET c == CoalesceOrRedistribute(T1, leaf) IN
            IF c.st.out_of_array THEN [T0 EXCEPT !.out_of_array = TRUE]
            ELSE DeletePages(IF c.del THEN AddIntoDeletedPageSet(c.st, leaf) ELSE c.st)

\* ---- one action per public method of the tree
InsertCall ==
  \E key \in Keys, value \in Vals :
    LET r == Insert(tree, key, value) IN
    /\ tree_last.n < MaxTreeOps
    /\ ~tree.out_of_array
    /\ r.st.next_page_id <= header_page_id + MaxTreePages + 1
    /\ tree' = r.st
    /\ ref_map' = IF ref_map[key] = 0 THEN [ref_map EXCEPT ![key] = value] ELSE ref_map
    /\ tree_last' = [op |-> "Insert", key |-> key, ret |-> r.ret, value |-> value, n |-> tree_last.n + 1,
                     seq |-> tree_last.seq]
    /\ UNCHANGED <<poolvars, replvars, concvars, guardvars, crab>>

RemoveCall ==
  \E key \in Keys :
    /\ tree_last.n < MaxTreeOps
    /\ ~tree.out_of_array
    /\ tree' = Remove(tree, key)
    /\ ref_map' = [ref_map EXCEPT ![key] = 0]
    /\ tree_last' = [op |-> "Remove", key |-> key, ret |-> FALSE, value |-> 0, n |-> tree_last.n + 1,
                     seq |-> tree_last.seq]
    /\ UNCHANGED <<poolvars, replvars, concvars, guardvars, crab>>

GetValueCall ==
  \E key \in Keys :
    LET r == GetValue(tree, key) IN
    /\ ~tree.out_of_array
    /\ tree_last' = [op |-> IF r.returns THEN "GetValue" ELSE "GetValue without end",
                     key |-> key, ret |-> r.found, value |-> r.value, n |-> tree_last.n,
                     seq |-> tree_last.seq]
    /\ UNCHANGED <<tree, ref_map>>
    /\ UNCHANGED <<poolvars, replvars, concvars, guardvars, crab>>

NextTree ==
  \/ InsertCall
  \/ RemoveCall
  \/ GetValueCall

SpecTree == Init /\ [][NextTree]_vars

\* ---- the keys 1 .. MaxSeqKey inserted in ascending order, Remove calls in between
InsertAscendingCall ==
  LET key == tree_last.seq + 1
      r == Insert(tree, key, 1) IN
  /\ key \in SeqKeys
  /\ ~tree.out_of_array
  /\ tree' = r.st
  /\ ref_map' = IF ref_map[key] = 0 THEN [ref_map EXCEPT ![key] = 1] ELSE ref_map
  /\ tree_last' = [op |-> "Insert", key |-> key, ret |-> r.ret, value |-> 1, n |-> tree_last.n + 1,
                   seq |-> key]
  /\ UNCHANGED <<poolvars, replvars, concvars, guardvars, crab>>

RemoveSeqCall ==
  \E key \in SeqKeys :
    /\ tree_last.n - tree_last.seq < MaxSeqRemoves
    /\ ~tree.out_of_array
    /\ tree' = Remove(tree, key)
    /\ ref_map' = [ref_map EXCEPT ![key] = 0]
    /\ tree_last' = [op |-> "Remove", key |-> key, ret |-> FALSE, value |-> 0, n |-> tree_last.n + 1,
                     seq |-> tree_last.seq]
    /\ UNCHANGED <<poolvars, replvars, concvars, guardvars, crab>>

NextTreeSeq ==
  \/ InsertAscendingCall
  \/ RemoveSeqCall

SpecTreeSeq == Init /\ [][NextTreeSeq]_vars

\* ---- the tree as seen from its root
\* The pages reached from page_id through the first size children of internal pages, n levels.
RECURSIVE Subtree(_, _, _)
Subtree(T, page_id, n) ==
  IF n = 0 \/ page_id \notin DOMAIN T.pages THEN {}
  ELSE IF T.pages[page_id].page_type # "INTERNAL_PAGE" THEN {page_id}
  ELSE {page_id} \cup UNION {Subtree(T, ValueAt(T.pages[page_id], i), n - 1) :
                                i \in 0 .. (T.pages[page_id].size - 1)}

TreePages(T) == IF IsEmpty(T) THEN {} ELSE Subtree(T, T.root_page_id, T.next_page_id)

Leaves(T) == {p \in TreePages(T) : IsLeafPage(T.pages[p])}

\* key is one of the first size entries of the leaf the descent for it ends in
Stored(T, key) ==
  /\ ~IsEmpty(T)
  /\ LET leaf == FindLeafPageByOperation(T, key) IN
     /\ leaf # INVALID_PAGE_ID
     /\ \E i \in 0 .. (T.pages[leaf].size - 1) : KeyAt(T.pages[leaf], i) = key

LeafOrdered(N) ==
  \A i \in 0 .. (N.size - 2) : KeyAt(N, i) < KeyAt(N, i + 1)

SubtreeKeys(T, page_id, n) ==
  UNION {{KeyAt(T.pages[p], i) : i \in 0 .. (T.pages[p].size - 1)} :
           p \in {q \in Subtree(T, page_id, n) : IsLeafPage(T.pages[q])}}

InternalPages(T) == {p \in TreePages(T) : T.pages[p].page_type = "INTERNAL_PAGE"}

RECURSIVE DescendLeftMost(_, _, _)
DescendLeftMost(T, page_id, n) ==
  IF n = 0 THEN INVALID_PAGE_ID
  ELSE IF IsLeafPage(PageOf(T, page_id)) THEN page_id
  ELSE DescendLeftMost(T, ValueAt(PageOf(T, page_id), 0), n - 1)

\* An iterator is the page of its leaf and index_.
TreeBegin(T) == [leaf |-> DescendLeftMost(T, T.root_page_id, T.next_page_id + 1), index |-> 0]

IsEnd(T, it) ==
  T.pages[it.leaf].next_page_id = INVALID_PAGE_ID /\ it.index = T.pages[it.leaf].size

\* operator*: GetItem(index_)
Deref(T, it) == T.pages[it.leaf].array[it.index]

\* operator++
Incr(T, it) ==
  LET index == it.index + 1 IN
  IF index = T.pages[it.leaf].size /\ T.pages[it.leaf].next_page_id # INVALID_PAGE_ID
    THEN [leaf |-> T.pages[it.leaf].next_page_id, index |-> 0]
    ELSE [leaf |-> it.leaf, index |-> index]

\* for (it = TreeBegin(); !it.IsEnd(); ++it) yield (*it).first, n steps at most; ended is FALSE
\* when the loop has not reached the end by then or index_ has left the array.
RECURSIVE Iterate(_, _, _)
Iterate(T, it, n) ==
  IF IsEnd(T, it) THEN [ended |-> TRUE, keys |-> << >>]
  ELSE IF n = 0 \/ it.index \notin ArrayIdx THEN [ended |-> FALSE, keys |-> << >>]
  ELSE LET r == Iterate(T, Incr(T, it), n - 1) IN
       [ended |-> r.ended, keys |-> <<Deref(T, it).first>> \o r.keys]

\* The first size keys of the leaves on the chain of next_page_id from page_id, n leaves at most.
RECURSIVE Chain(_, _, _)
Chain(T, page_id, n) ==
  IF page_id = INVALID_PAGE_ID THEN [ended |-> TRUE, keys |-> << >>]
  ELSE IF n = 0 \/ page_id \notin DOMAIN T.pages THEN [ended |-> FALSE, keys |-> << >>]
  ELSE LET r == Chain(T, T.pages[page_id].next_page_id, n - 1) IN
       [ended |-> r.ended,
        keys |-> [i \in 1 .. T.pages[page_id].size |-> KeyAt(T.pages[page_id], i - 1)] \o r.keys]

Ascending(s) == \A i \in 1 .. (Len(s) - 1) : s[i] < s[i + 1]

Range(s) == {s[i] : i \in 1 .. Len(s)}

TreeKeys(T) == IF IsEmpty(T) THEN {} ELSE SubtreeKeys(T, T.root_page_id, T.next_page_id)

LeafKeys(N) == {KeyAt(N, i) : i \in 0 .. (N.size - 1)}

CrabPin(C, t, p) ==
  [C EXCEPT !.pin[p] = @ + 1, !.th[t].took[p] = @ + 1]

\* bpm_->UnpinPage(p, is_dirty): false when pin_count_ is 0
CrabUnpinPage(C, t, p) ==
  IF C.pin[p] = 0 THEN C
  ELSE [C EXCEPT !.pin[p] = @ - 1, !.th[t].gave[p] = @ + 1]

WiredNewPageGuarded(C, t, p) == CrabPin(C, t, p)

WiredFetchPageRead(C, t, p) ==
  [RLatch(CrabPin(C, t, p), p) EXCEPT !.th[t].rheld = @ \cup {p}]

WiredFetchPageWrite(C, t, p) ==
  [WLatch(CrabPin(C, t, p), p) EXCEPT !.th[t].wheld = @ \cup {p}]

\* The calls above return when the latch can be taken.
CanRLatch(C, p) == ~C.latch[p].writer

CanWLatch(C, p) == ~C.latch[p].writer /\ C.latch[p].readers = 0

\* ~BasicPageGuard, ~ReadPageGuard, ~WritePageGuard of a guard on page p
DropBasic(C, t, p) == CrabUnpinPage(C, t, p)

DropRead(C, t, p, ub) ==
  CrabUnpinPage([RUnlatch(C, p, ub) EXCEPT !.th[t].rheld = @ \ {p}], t, p)

DropWrite(C, t, p, ub) ==
  CrabUnpinPage([WUnlatch(RUnlatch(C, p, ub), p, ub) EXCEPT !.th[t].wheld = @ \ {p}], t, p)

\* IsSafe with the bound of INSERT one too high
IsSafeUpToMaxSize(N, op) ==
  IF IsRootPage(N)
    THEN \/ op = "Insert" /\ N.size < N.max_size
         \/ op = "Remove" /\ N.size > 2
  ELSE IF op = "Insert" THEN N.size < N.max_size
  ELSE IF op = "Remove" THEN N.size > GetMinSize(N)
  ELSE TRUE

IsSafe(N, op) ==
  IF IsRootPage(N)
    THEN \/ op = "Insert" /\ N.size < N.max_size - 1
         \/ op = "Remove" /\ N.size > 2
  ELSE IF op = "Insert" THEN N.size < N.max_size - 1
  ELSE IF op = "Remove" THEN N.size > GetMinSize(N)
  ELSE TRUE

CrabGoto(C, t, pc) == [C EXCEPT !.th[t].pc = pc]

\* The call returns: the thread is between two calls again.
CrabReturn(C, t) ==
  [C EXCEPT !.th[t].pc = "idle", !.th[t].left = @ - 1]

CrabKeep == UNCHANGED <<poolvars, replvars, concvars, guardvars, ref_map, tree_last>>

\* A thread calls Insert(key, 1), Remove(key) or GetValue(key).
CrabCall(t) ==
  \E op \in {"Insert", "Remove", "GetValue"}, key \in CrabKeys :
    /\ crab.th[t].pc = "idle"
    /\ crab.th[t].left > 0
    /\ crab' = [crab EXCEPT !.th[t] =
                  [CrabIdle(@.left) EXCEPT !.pc = IF op = "GetValue" THEN "root_latch" ELSE "IsEmpty",
                                           !.op = op, !.key = key]]
    /\ UNCHANGED tree
    /\ CrabKeep

\* IsEmpty() at the head of Insert and Remove: the header page under a ReadPageGuard.
CrabIsEmpty(t) ==
  \E ub \in BOOLEAN :
    LET C == DropRead(WiredFetchPageRead(crab, t, header_page_id), t, header_page_id, ub) IN
    /\ crab.th[t].pc = "IsEmpty"
    /\ CanRLatch(crab, header_page_id)
    /\ crab' = IF ~IsEmpty(tree) THEN CrabGoto(C, t, "root_latch")
               ELSE IF crab.th[t].op = "Insert" THEN CrabGoto(C, t, "NewPageGuarded")
               ELSE CrabReturn(C, t)
    /\ UNCHANGED tree
    /\ CrabKeep

\* StartNewTree: new_page_guard = bpm_->NewPageGuarded(&new_page_id)
CrabNewPageGuarded(t) ==
  LET n == NewTreePage(tree) IN
  /\ crab.th[t].pc = "NewPageGuarded"
  /\ n.page_id \in CrabPages
  /\ tree' = n.st
  /\ crab' = CrabGoto([WiredNewPageGuarded(crab, t, n.page_id) EXCEPT !.th[t].new_page_id = n.page_id],
                      t, "header")
  /\ CrabKeep

\* StartNewTree: the header page under a WritePageGuard, root_page_id_ = new_page_id, the new
\* page made a leaf with the key, and bpm_->UnpinPage(new_page_guard.PageId(), true).
CrabStartNewTree(t) ==
  LET new_page_id == crab.th[t].new_page_id
      T1 == UpdateRootPageId(tree, new_page_id) IN
  /\ crab.th[t].pc = "header"
  /\ CanWLatch(crab, header_page_id)
  /\ tree' = [T1 EXCEPT !.pages[new_page_id] =
                LeafInsert(LeafInit(@, new_page_id, INVALID_PAGE_ID, leaf_max_size), crab.th[t].key, 1)]
  /\ crab' = CrabGoto(CrabUnpinPage(WiredFetchPageWrite(crab, t, header_page_id), t, new_page_id),
                      t, "~header_page_guard")
  /\ CrabKeep

\* StartNewTree returns: ~header_page_guard
CrabDropHeader(t) ==
  \E ub \in BOOLEAN :
    /\ crab.th[t].pc = "~header_page_guard"
    /\ crab' = CrabGoto(DropWrite(crab, t, header_page_id, ub), t, "~new_page_guard")
    /\ UNCHANGED tree
    /\ CrabKeep

\* StartNewTree returns: ~new_page_guard; Insert returns true.
CrabDropNew(t) ==
  /\ crab.th[t].pc = "~new_page_guard"
  /\ crab' = [CrabReturn(DropBasic(crab, t, crab.th[t].new_page_id), t) EXCEPT
                !.inserted = @ \cup {crab.th[t].key}]
  /\ UNCHANGED tree
  /\ CrabKeep

\* FindLeafPageByOperation: root_latch_.lock()
CrabRootLatch(t) ==
  /\ crab.th[t].pc = "root_latch"
  /\ crab.root_latch = 0
  /\ crab' = CrabGoto([crab EXCEPT !.root_latch = t], t, "FetchPageRead")
  /\ UNCHANGED tree
  /\ CrabKeep

\* FindLeafPageByOperation: header_page_guard = bpm_->FetchPageRead(header_page_id_)
CrabFetchHeader(t) ==
  /\ crab.th[t].pc = "FetchPageRead"
  /\ CanRLatch(crab, header_page_id)
  /\ crab' = CrabGoto(WiredFetchPageRead(crab, t, header_page_id), t, "FetchPageWrite")
  /\ UNCHANGED tree
  /\ CrabKeep

\* FindLeafPageByOperation: page_guard = bpm_->FetchPageWrite(header_page->root_page_id_)
CrabFetchRoot(t) ==
  /\ crab.th[t].pc = "FetchPageWrite"
  /\ CanWLatch(crab, tree.root_page_id)
  /\ crab' = CrabGoto(WiredFetchPageWrite(crab, t, tree.root_page_id), t, "Latch")
  /\ UNCHANGED tree
  /\ CrabKeep

\* FindLeafPageByOperation: page_guard.RLatch() (FIND) or page_guard.WLatch() on the page
\* FetchPageWrite has latched for this thread.  Locking a lock the thread holds is undefined:
\* the call does not return, or it throws and the guards are destroyed while the stack is
\* unwound, page_guard before header_page_guard; root_latch_ stays locked.
CrabLatch(t) ==
  \E throws \in BOOLEAN, ub \in BOOLEAN :
    /\ crab.th[t].pc = "Latch"
    /\ crab' = IF throws
                 THEN LET p == CHOOSE q \in crab.th[t].wheld : TRUE IN
                      CrabGoto(DropRead(DropWrite(crab, t, p, ub), t, header_page_id, ub), t, "thrown")
                 ELSE CrabGoto(crab, t, "blocked")
    /\ UNCHANGED tree
    /\ CrabKeep

CrabStep(t) ==
  \/ CrabCall(t)
  \/ CrabIsEmpty(t)
  \/ CrabNewPageGuarded(t)
  \/ CrabStartNewTree(t)
  \/ CrabDropHeader(t)
  \/ CrabDropNew(t)
  \/ CrabRootLatch(t)
  \/ CrabFetchHeader(t)
  \/ CrabFetchRoot(t)
  \/ CrabLatch(t)

NextCrab == \E t \in Threads : CrabStep(t)

SpecCrab == Init /\ [][NextCrab]_vars

\* Every thread that can take a step takes one.
SpecCrabFair == SpecCrab /\ \A t \in Threads : WF_vars(CrabStep(t))

RECURSIVE DescentPath(_, _, _, _)
DescentPath(T, page_id, key, n) ==
  IF n = 0 \/ page_id \notin DOMAIN T.pages THEN <<>>
  ELSE IF IsLeafPage(T.pages[page_id]) THEN <<page_id>>
  ELSE <<page_id>> \o DescentPath(T, InternalLookup(T.pages[page_id], key), key, n - 1)

\* T1 is T after an operation whose descent was path and found path[i] safe: the pages
\* above path[i] and root_page_id are as before.
NothingAbove(T, T1, path, i) ==
  /\ T1.root_page_id = T.root_page_id
  /\ \A j \in 1 .. (i - 1) : T1.pages[path[j]] = T.pages[path[j]]

TreeBeginAt(T, key) ==
  LET leaf == FindLeafPageByOperation(T, key) IN
  [leaf |-> leaf, index |-> KeyIndex(PageOf(T, leaf), key)]

\* The iterator is at the end or on one of the first size entries of its leaf.
Positioned(T, it) == IsEnd(T, it) \/ it.index < T.pages[it.leaf].size

\* it and the iterators operator++ makes of it, n times at most
RECURSIVE AllPositioned(_, _, _)
AllPositioned(T, it, n) ==
  /\ Positioned(T, it)
  /\ IsEnd(T, it) \/ n = 0 \/ AllPositioned(T, Incr(T, it), n - 1)

C37_CandidatesAreUnpinnedResidents ==
  {f \in Frames : ref_flag[f]} =
    {f \in Frames : /\ pages[f].pin_count = 0
                    /\ pages[f].page_id \in DOMAIN page_table
                    /\ page_table[pages[f].page_id] = f}

====
